---- MODULE Spec2Model ----
(***************************************************************************)
(* walletpro: a personal-finance client over a hosted store.               *)
(*                                                                         *)
(* The module models, from the TypeScript sources,                         *)
(*   - the entry form (components/TransactionModal.tsx): two validation    *)
(*     schemas, two react-hook-form forms, the tab state, the reference    *)
(*     data loader and the asynchronous submit handler;                    *)
(*   - the dashboard (pages/DashboardPage.tsx): the window and category    *)
(*     filters, the asynchronous fetchDashboardData and the state it       *)
(*     writes;                                                             *)
(*   - the router of App, the login page (pages/LoginPage.tsx) and the     *)
(*     layout's logout;                                                    *)
(*   - the pages of accounts and categories (pages/AccountsPage.tsx,       *)
(*     pages/CategoriesPage.tsx): their schemas, form, list fetch, delete  *)
(*     and submit handlers.                                                *)
(* Every await on the network (auth.getUser, a query, an insert, the rpc)  *)
(* is a point where other events may interleave, so each asynchronous      *)
(* handler is a small task with a program counter.                         *)
(***************************************************************************)
EXTENDS Integers, Sequences, FiniteSets, TLC

(***************************************************************************)
(* Bounds of the model.                                                    *)
(***************************************************************************)
MaxSubmits == 1      \* submit handlers in flight at once
MaxRecords == 1      \* rows the form adds to the store in one run
MaxLoads == 1        \* reference-data loaders in flight at once
MaxFetches == 2      \* dashboard fetches in flight at once

(***************************************************************************)
(* Identifiers and field texts.                                            *)
(***************************************************************************)
NoUser == "nouser"
Users == {"u1"}

AccountIds == {"acc-1", "acc-2"}
CategoryType == [i \in {"cat-in", "cat-out"} |-> IF i = "cat-in" THEN "income" ELSE "expense"]
CategoryIds == DOMAIN CategoryType
Uuids == AccountIds \cup CategoryIds

Tabs == {"expense", "income", "transfer"}

Today == "2025-01-01"
TypedAmounts == {"", "abc", "-5", "50"}
TypedDates == {"", Today}
TypedNotes == {"", "memo"}

NoError == "none"
MsgAmount == "El monto debe ser mayor a cero"
MsgNaN == "Expected number, received nan"
MsgAccount == "Debe seleccionar una cuenta"
MsgCategory == "Debe seleccionar una categoria"
MsgFrom == "Debe seleccionar una cuenta de origen"
MsgTo == "Debe seleccionar una cuenta de destino"
MsgSame == "Las cuentas no pueden ser las mismas"
MsgDate == "La fecha es requerida"

StoreErrors == {"permission denied", "violates foreign key"}

\* The options of the period select, and parseInt of each.
Periods == {"7", "30", "90", "365"}
ParseInt == [p \in Periods |->
                CASE p = "7" -> 7 [] p = "30" -> 30 [] p = "90" -> 90 [] OTHER -> 365]

\* Dates of rows stored in earlier sessions, and the whole days from each
\* date to the day of the run.
Earlier == "2024-12-20"
LastWeek == "2024-12-29"
Before == "2024-12-15"
DaysAgo ==
    [d \in {Today, LastWeek, Earlier, Before} |->
        CASE d = Today -> 0 [] d = LastWeek -> 3 [] d = Earlier -> 12 [] OTHER -> 17]

\* The categories of the store as the dashboard reads them: the two the
\* form's runs choose among and a second expense category.
StoredCategoryIds == CategoryIds \cup {"cat-bus"}
CategoryName ==
    [c \in StoredCategoryIds |->
        CASE c = "cat-in" -> "Salario" [] c = "cat-out" -> "Comida" [] OTHER -> "Transporte"]
NoAlert == "noalert"

(***************************************************************************)
(* The value a number input hands to the form: the text when it is a valid *)
(* floating-point number, the empty string otherwise.                      *)
(***************************************************************************)
IsNumericText(t) == t \in {"-5", "0", "50"}

InputNumberValue(t) == IF IsNumericText(t) THEN t ELSE ""

(***************************************************************************)
(* z.coerce.number(): Number(value).  Number("") is 0; a text that is not  *)
(* a number gives NaN.                                                     *)
(***************************************************************************)
CoerceNumber(s) ==
    CASE s = ""   -> [nan |-> FALSE, val |-> 0]
      [] s = "-5" -> [nan |-> FALSE, val |-> 0 - 5]
      [] s = "0"  -> [nan |-> FALSE, val |-> 0]
      [] s = "50" -> [nan |-> FALSE, val |-> 50]
      [] OTHER    -> [nan |-> TRUE, val |-> 0]

\* AmountError with .nonnegative() in place of .positive().
AmountError_NonNegative(s) ==
    LET n == CoerceNumber(s)
    IN  IF n.nan THEN MsgNaN
        ELSE IF n.val >= 0 THEN NoError ELSE MsgAmount

\* amount: z.coerce.number().positive({message})
AmountError(s) ==
    LET n == CoerceNumber(s)
    IN  IF n.nan THEN MsgNaN
        ELSE IF n.val > 0 THEN NoError ELSE MsgAmount

\* z.string().uuid({message})
UuidError(s, msg) == IF s \in Uuids THEN NoError ELSE msg

\* z.string().nonempty({message})
DateError(s) == IF s # "" THEN NoError ELSE MsgDate

(***************************************************************************)
(* transactionSchema and transferSchema: the per-field errors (the first   *)
(* issue of each path), and the parsed data handed to the submit handler.  *)
(***************************************************************************)
NoTransactionErrors ==
    [amount |-> NoError, account_id |-> NoError, category_id |-> NoError, date |-> NoError]

NoTransferErrors ==
    [amount |-> NoError, from_account_id |-> NoError, to_account_id |-> NoError, date |-> NoError]

transactionSchema(v) ==
    [amount      |-> AmountError(v.amount),
     account_id  |-> UuidError(v.account_id, MsgAccount),
     category_id |-> UuidError(v.category_id, MsgCategory),
     date        |-> DateError(v.date)]

\* transferSchema whose refinement runs only when no field has an issue.
transferSchema_RefineWhenClean(v) ==
    LET clean == /\ AmountError(v.amount) = NoError
                 /\ UuidError(v.from_account_id, MsgFrom) = NoError
                 /\ DateError(v.date) = NoError
        toUuid == UuidError(v.to_account_id, MsgTo)
    IN  [amount          |-> AmountError(v.amount),
         from_account_id |-> UuidError(v.from_account_id, MsgFrom),
         to_account_id   |-> IF toUuid # NoError THEN toUuid
                             ELSE IF clean /\ v.from_account_id = v.to_account_id
                                  THEN MsgSame ELSE NoError,
         date            |-> DateError(v.date)]

\* transferSchema without the refinement.
transferSchema_NoRefine(v) ==
    [amount          |-> AmountError(v.amount),
     from_account_id |-> UuidError(v.from_account_id, MsgFrom),
     to_account_id   |-> UuidError(v.to_account_id, MsgTo),
     date            |-> DateError(v.date)]

\* The refinement runs unless a field failed with a type error, and its
\* issue is put on the path to_account_id.
transferSchema(v) ==
    LET aborted == CoerceNumber(v.amount).nan
        toUuid == UuidError(v.to_account_id, MsgTo)
    IN  [amount          |-> AmountError(v.amount),
         from_account_id |-> UuidError(v.from_account_id, MsgFrom),
         to_account_id   |-> IF toUuid # NoError THEN toUuid
                             ELSE IF ~aborted /\ v.from_account_id = v.to_account_id
                                  THEN MsgSame ELSE NoError,
         date            |-> DateError(v.date)]

ParsedTransaction(v) ==
    [amount |-> CoerceNumber(v.amount).val, account_id |-> v.account_id,
     category_id |-> v.category_id, date |-> v.date, note |-> v.note]

ParsedTransfer(v) ==
    [amount |-> CoerceNumber(v.amount).val, from_account_id |-> v.from_account_id,
     to_account_id |-> v.to_account_id, date |-> v.date, note |-> v.note]

(***************************************************************************)
(* defaultValues of the two forms, as the mounted inputs show them: the    *)
(* date of the day, an empty note, and the empty text for every input that *)
(* has no default.                                                         *)
(***************************************************************************)
TransactionDefaults ==
    [amount |-> "", account_id |-> "", category_id |-> "", date |-> Today, note |-> ""]

TransferDefaults ==
    [amount |-> "", from_account_id |-> "", to_account_id |-> "", date |-> Today, note |-> ""]


(***************************************************************************)
(* State.                                                                  *)
(***************************************************************************)
VARIABLES
    user,               \* what supabase.auth.getUser() resolves to
    transactions,       \* the store's transactions collection
    transfers,          \* the store's transfers collection
    isModalOpen,        \* DashboardPage: isModalOpen, the form's isOpen
    activeTab,          \* TransactionModal: activeTab
    accounts,           \* TransactionModal: accounts (ids of the loaded list)
    categories,         \* TransactionModal: categories (ids of the loaded list)
    transactionForm,    \* values, errors and isSubmitted of transactionForm
    transferForm,       \* values, errors and isSubmitted of transferForm
    submits,            \* onSubmit handlers in flight
    loads,              \* fetchData loaders in flight
    alertMsg,           \* the blocking alert on screen, or NoAlert
    activePeriod,       \* DashboardPage: activePeriod
    activeCategory,     \* DashboardPage: activeCategory
    loading,            \* DashboardPage: loading
    kpiData,            \* DashboardPage: kpiData
    pieChartData,       \* DashboardPage: pieChartData
    recentTransactions, \* DashboardPage: recentTransactions
    dashCategories,     \* DashboardPage: categories (ids of the loaded list)
    categoriesFetch,    \* DashboardPage: fetchCategories is in flight
    fetches             \* fetchDashboardData calls in flight

storeVars == <<transactions, transfers>>
formVars == <<activeTab, transactionForm, transferForm>>
listVars == <<accounts, categories>>
dashVars == <<activePeriod, activeCategory, kpiData, pieChartData, recentTransactions,
              dashCategories, categoriesFetch>>
VARIABLES
    session,            \* App: session
    path,               \* the router's location
    isLogin,            \* LoginPage: isLogin
    authLoading,        \* LoginPage: loading
    authError,          \* LoginPage: error
    auths,              \* handleAuth calls in flight
    tables,             \* the store's accounts and categories collections
    records,            \* AccountsPage: accounts, CategoriesPage: categories
    pageLoading,        \* AccountsPage, CategoriesPage: loading
    showModal,          \* AccountsPage, CategoriesPage: showModal
    editing,            \* AccountsPage: editingAccount, CategoriesPage: editingCategory
    pageForm,           \* values and errors of the page's form
    requests,           \* page handlers in flight: fetch, delete, submit
    dialog              \* the record whose window.confirm is on screen, or NoRecord

routeVars == <<session, path>>
loginVars == <<isLogin, authLoading, authError, auths>>
pageVars == <<tables, records, pageLoading, showModal, editing, pageForm, requests, dialog>>
siteVars == <<routeVars, loginVars, pageVars>>
walletVars == <<user, transactions, transfers, isModalOpen, activeTab, accounts, categories,
                transactionForm, transferForm, submits, loads, alertMsg,
                activePeriod, activeCategory, loading, kpiData, pieChartData,
                recentTransactions, dashCategories, categoriesFetch, fetches>>
vars == <<walletVars, siteVars>>

(***************************************************************************)
(* The rest of the site: the router of App, the login page, and the pages  *)
(* of accounts and categories.                                             *)
(***************************************************************************)
Paths == {"/", "/dashboard", "/accounts", "/categories"}
ProtectedPaths == Paths \ {"/"}
ListPaths == {"/accounts", "/categories"}

\* The store's collection behind a list page.
TableOf == [p \in ListPaths |-> IF p = "/accounts" THEN "accounts" ELSE "categories"]

NoRecord == [id |-> 0]

MsgName == "El nombre debe tener al menos 2 caracteres"
MsgRequired == "Required"
MsgNegative == "El saldo inicial no puede ser negativo"
MsgEnum == "Invalid enum value"
MsgDeleteAccount == "Error al eliminar la cuenta. Asegurate de que no tenga transacciones asociadas."
MsgDeleteCategory == "Error al eliminar la categoria."
AuthErrors == {"Invalid login credentials"}

TypedNames == {"", "A", "Ahorro"}
TypedBalances == {"", "abc", "-5", "0", "50"}
CategoryTypes == {"income", "expense"}

\* String(n) of a stored balance.
NumberText(n) == CASE n = 0 -> "0" [] n = 50 -> "50" [] OTHER -> "-5"

\* BalanceError that takes the empty text as 0, as Number('') does.
BalanceError_EmptyIsZero(s) ==
    LET n == CoerceNumber(s)
    IN  IF n.nan THEN MsgNaN
        ELSE IF n.val >= 0 THEN NoError ELSE MsgNegative

\* opening_balance: z.preprocess(val => String(val).trim() === '' ? undefined
\* : Number(String(val)), z.number().refine(!isNaN).min(0)).  undefined and
\* NaN fail z.number() before the refinement and the minimum are looked at.
BalanceError(s) ==
    IF s = "" THEN MsgRequired
    ELSE LET n == CoerceNumber(s)
         IN  IF n.nan THEN MsgNaN
             ELSE IF n.val >= 0 THEN NoError ELSE MsgNegative

\* name: z.string().min(2, {message})
NameError(s) == IF Len(s) >= 2 THEN NoError ELSE MsgName

NoAccountErrors == [name |-> NoError, opening_balance |-> NoError]
NoCategoryErrors == [name |-> NoError, type |-> NoError]

accountSchema(v) ==
    [name |-> NameError(v.name), opening_balance |-> BalanceError(v.opening_balance)]

categorySchema(v) ==
    [name |-> NameError(v.name),
     type |-> IF v.type \in CategoryTypes THEN NoError ELSE MsgEnum]

\* The data the resolver hands to onSubmit.
ParsedAccount(v) ==
    [name |-> v.name, opening_balance |-> CoerceNumber(v.opening_balance).val]

ParsedCategory(v) == [name |-> v.name, type |-> v.type]

\* defaultValues of the two page forms.
AccountDefaults == [name |-> "", opening_balance |-> "0"]
CategoryDefaults == [name |-> "", type |-> "expense"]

PageDefaults(p) == IF p = "/accounts" THEN AccountDefaults ELSE CategoryDefaults
NoPageErrors(p) == IF p = "/accounts" THEN NoAccountErrors ELSE NoCategoryErrors
PageSchema(p, v) == IF p = "/accounts" THEN accountSchema(v) ELSE categorySchema(v)
ParsedPage(p, v) == IF p = "/accounts" THEN ParsedAccount(v) ELSE ParsedCategory(v)

\* useForm({resolver, defaultValues}) / reset(values)
NewPageForm(p, values) ==
    [values |-> values, errors |-> NoPageErrors(p), isSubmitted |-> FALSE]

\* The values react-hook-form reads from the inputs of the page's form: the
\* opening balance input has type="number".
PageFieldValues(p, form) ==
    IF p = "/accounts"
    THEN [form.values EXCEPT !.opening_balance = InputNumberValue(form.values.opening_balance)]
    ELSE form.values

\* The login page as it mounts.
LoginMounted ==
    /\ isLogin = TRUE
    /\ authLoading = FALSE
    /\ authError = NoError
    /\ auths = <<>>

\* A list page as it mounts, before its first fetch.
PageMounted(p) ==
    /\ records = {}
    /\ pageLoading = TRUE
    /\ showModal = FALSE
    /\ editing = NoRecord
    /\ pageForm = NewPageForm(p, PageDefaults(p))
    /\ requests = <<>>
    /\ dialog = NoRecord

\* The signed-in user is on the dashboard; no other page is mounted.
SiteAtDashboard ==
    /\ session \in Users
    /\ path = "/dashboard"
    /\ LoginMounted
    /\ tables = [t \in {"accounts", "categories"} |-> {}]
    /\ PageMounted("/accounts")


RemoveAt(s, i) == SubSeq(s, 1, i - 1) \o SubSeq(s, i + 1, Len(s))

(***************************************************************************)
(* The entry form.                                                         *)
(***************************************************************************)
\* useForm({resolver, defaultValues}) / form.reset()
NewTransactionForm ==
    [values |-> TransactionDefaults, errors |-> NoTransactionErrors, isSubmitted |-> FALSE]

NewTransferForm ==
    [values |-> TransferDefaults, errors |-> NoTransferErrors, isSubmitted |-> FALSE]

\* The values react-hook-form reads from the inputs: the amount input has
\* type="number".
FieldValues(form) ==
    [form.values EXCEPT !.amount = InputNumberValue(form.values.amount)]

\* filteredCategories without the test of the tab: income is never asked for.
filteredCategories_ExpenseOnly ==
    {c \in categories : CategoryType[c] = "expense"}

\* const filteredCategories = categories.filter(c => c.type === (...))
filteredCategories ==
    {c \in categories : CategoryType[c] = (IF activeTab = "income" THEN "income" ELSE "expense")}

\* The option values a select of the rendered form offers.
Options(field) ==
    IF field = "category_id" THEN {""} \cup filteredCategories ELSE {""} \cup accounts

\* fetchDashboardData up to its first await: setLoading(true) and the call
\* to auth.getUser(); p and c are the filters the callback closed over.
StartFetch(p, c) ==
    /\ Len(fetches) < MaxFetches
    /\ loading' = TRUE
    /\ fetches' = Append(fetches, [pc |-> "getUser", period |-> p, category |-> c])

\* SetActiveTab whose effect resets only the form of the new tab.
SetActiveTab_ResetCurrent(tab) ==
    /\ isModalOpen /\ alertMsg = NoAlert
    /\ tab # activeTab
    /\ activeTab' = tab
    /\ IF tab = "transfer"
       THEN transferForm' = NewTransferForm /\ UNCHANGED transactionForm
       ELSE transactionForm' = NewTransactionForm /\ UNCHANGED transferForm
    /\ UNCHANGED <<siteVars, user, storeVars, isModalOpen, listVars, submits, loads, alertMsg,
                   dashVars, loading, fetches>>

\* SetActiveTab without the reset of the forms.
SetActiveTab_NoReset(tab) ==
    /\ isModalOpen /\ alertMsg = NoAlert
    /\ tab # activeTab
    /\ activeTab' = tab
    /\ UNCHANGED <<siteVars, user, storeVars, isModalOpen, transactionForm, transferForm, listVars,
                   submits, loads, alertMsg, dashVars, loading, fetches>>

\* <TabButton onClick={() => setActiveTab(tab)}> and the effect on
\* [activeTab], which resets both forms.
SetActiveTab(tab) ==
    /\ isModalOpen /\ alertMsg = NoAlert
    /\ tab # activeTab
    /\ activeTab' = tab
    /\ transactionForm' = NewTransactionForm
    /\ transferForm' = NewTransferForm
    /\ UNCHANGED <<siteVars, user, storeVars, isModalOpen, listVars, submits, loads, alertMsg,
                   dashVars, loading, fetches>>

\* onChange of a registered input: the value is stored, and once the form
\* has been submitted the changed field is validated again.
ChangeField(form, field, text) == [form EXCEPT !.values[field] = text]

Revalidate(form, field, errors) ==
    IF form.isSubmitted /\ field \in DOMAIN form.errors
    THEN [form EXCEPT !.errors[field] = errors[field]]
    ELSE form

TransactionField(field, text) ==
    /\ isModalOpen /\ alertMsg = NoAlert
    /\ activeTab # "transfer"
    /\ \/ field = "amount" /\ text \in TypedAmounts
       \/ field \in {"account_id", "category_id"} /\ text \in Options(field)
       \/ field = "date" /\ text \in TypedDates
       \/ field = "note" /\ text \in TypedNotes
    /\ LET changed == ChangeField(transactionForm, field, text)
       IN  transactionForm' = Revalidate(changed, field, transactionSchema(FieldValues(changed)))
    /\ UNCHANGED <<siteVars, user, storeVars, isModalOpen, activeTab, transferForm, listVars, submits,
                   loads, alertMsg, dashVars, loading, fetches>>

TransferField(field, text) ==
    /\ isModalOpen /\ alertMsg = NoAlert
    /\ activeTab = "transfer"
    /\ \/ field = "amount" /\ text \in TypedAmounts
       \/ field \in {"from_account_id", "to_account_id"} /\ text \in Options(field)
       \/ field = "date" /\ text \in TypedDates
       \/ field = "note" /\ text \in TypedNotes
    /\ LET changed == ChangeField(transferForm, field, text)
       IN  transferForm' = Revalidate(changed, field, transferSchema(FieldValues(changed)))
    /\ UNCHANGED <<siteVars, user, storeVars, isModalOpen, activeTab, transactionForm, listVars, submits,
                   loads, alertMsg, dashVars, loading, fetches>>

\* form.handleSubmit(onSubmit): the resolver validates the form's values;
\* with errors they are shown and onSubmit is not called, without errors
\* onSubmit starts with the parsed data and runs up to auth.getUser().
\* The handler closes over activeTab and over the onSuccess of this render.
HandleSubmit(form, errors, noErrors, data) ==
    IF errors # noErrors
    THEN [form |-> [form EXCEPT !.errors = errors, !.isSubmitted = TRUE],
          started |-> <<>>]
    ELSE [form |-> [form EXCEPT !.errors = noErrors, !.isSubmitted = TRUE],
          started |-> <<[pc |-> "getUser", tab |-> activeTab, data |-> data,
                         period |-> activePeriod, category |-> activeCategory]>>]

Submit ==
    /\ isModalOpen /\ alertMsg = NoAlert
    /\ LET r == IF activeTab = "transfer"
                THEN HandleSubmit(transferForm, transferSchema(FieldValues(transferForm)),
                                  NoTransferErrors,
                                  ParsedTransfer(FieldValues(transferForm)))
                ELSE HandleSubmit(transactionForm,
                                  transactionSchema(FieldValues(transactionForm)),
                                  NoTransactionErrors,
                                  ParsedTransaction(FieldValues(transactionForm)))
       IN  /\ Len(submits) + Len(r.started) <= MaxSubmits
           /\ submits' = submits \o r.started
           /\ IF activeTab = "transfer"
              THEN transferForm' = r.form /\ UNCHANGED transactionForm
              ELSE transactionForm' = r.form /\ UNCHANGED transferForm
    /\ UNCHANGED <<siteVars, user, storeVars, isModalOpen, activeTab, listVars, loads, alertMsg,
                   dashVars, loading, fetches>>

\* InsertRequest that reads the tab on screen when the insert is sent.
InsertRequest_TabOnScreen(t, uid) ==
    IF t.tab = "transfer"
    THEN [table |-> "transfers",
          row |-> [from_account_id |-> t.data.from_account_id,
                   to_account_id |-> t.data.to_account_id, amount |-> t.data.amount,
                   date |-> t.data.date, note |-> t.data.note, user_id |-> uid]]
    ELSE [table |-> "transactions",
          row |-> [account_id |-> t.data.account_id, category_id |-> t.data.category_id,
                   amount |-> t.data.amount, date |-> t.data.date, note |-> t.data.note,
                   user_id |-> uid, kind |-> IF activeTab = "income" THEN "in" ELSE "out"]]

\* InsertRequest that adds the kind to every row.
InsertRequest_KindEverywhere(t, uid) ==
    IF t.tab = "transfer"
    THEN [table |-> "transfers",
          row |-> [from_account_id |-> t.data.from_account_id,
                   to_account_id |-> t.data.to_account_id, amount |-> t.data.amount,
                   date |-> t.data.date, note |-> t.data.note, user_id |-> uid,
                   kind |-> "out"]]
    ELSE [table |-> "transactions",
          row |-> [account_id |-> t.data.account_id, category_id |-> t.data.category_id,
                   amount |-> t.data.amount, date |-> t.data.date, note |-> t.data.note,
                   user_id |-> uid, kind |-> IF t.tab = "income" THEN "in" ELSE "out"]]

\* onSubmit after auth.getUser(): without a user it returns; with one it
\* sends the insert for the tab it closed over.
InsertRequest(t, uid) ==
    IF t.tab = "transfer"
    THEN [table |-> "transfers",
          row |-> [from_account_id |-> t.data.from_account_id,
                   to_account_id |-> t.data.to_account_id, amount |-> t.data.amount,
                   date |-> t.data.date, note |-> t.data.note, user_id |-> uid]]
    ELSE [table |-> "transactions",
          row |-> [account_id |-> t.data.account_id, category_id |-> t.data.category_id,
                   amount |-> t.data.amount, date |-> t.data.date, note |-> t.data.note,
                   user_id |-> uid, kind |-> IF t.tab = "income" THEN "in" ELSE "out"]]

\* SubmitGetUser without the check of the user.
SubmitGetUser_NoCheck(i) ==
    /\ alertMsg = NoAlert
    /\ i \in DOMAIN submits /\ submits[i].pc = "getUser"
    /\ submits' = [submits EXCEPT ![i] =
                       [pc |-> "insert", request |-> InsertRequest(submits[i], user),
                        period |-> submits[i].period, category |-> submits[i].category]]
    /\ UNCHANGED <<siteVars, user, storeVars, isModalOpen, formVars, listVars, loads, alertMsg,
                   dashVars, loading, fetches>>

SubmitGetUser(i) ==
    /\ alertMsg = NoAlert
    /\ i \in DOMAIN submits /\ submits[i].pc = "getUser"
    /\ IF user = NoUser
       THEN submits' = RemoveAt(submits, i)
       ELSE submits' = [submits EXCEPT ![i] =
                            [pc |-> "insert", request |-> InsertRequest(submits[i], user),
                             period |-> submits[i].period, category |-> submits[i].category]]
    /\ UNCHANGED <<siteVars, user, storeVars, isModalOpen, formVars, listVars, loads, alertMsg,
                   dashVars, loading, fetches>>

\* SubmitInsertError that calls onClose() after the alert.
SubmitInsertError_Closes(i, message) ==
    /\ alertMsg = NoAlert
    /\ i \in DOMAIN submits /\ submits[i].pc = "insert"
    /\ message \in StoreErrors
    /\ alertMsg' = "Error: " \o message
    /\ isModalOpen' = FALSE
    /\ submits' = RemoveAt(submits, i)
    /\ UNCHANGED <<siteVars, user, storeVars, formVars, listVars, loads,
                   dashVars, loading, fetches>>

\* The store rejects the insert: alert(`Error: ${error.message}`).
SubmitInsertError(i, message) ==
    /\ alertMsg = NoAlert
    /\ i \in DOMAIN submits /\ submits[i].pc = "insert"
    /\ message \in StoreErrors
    /\ alertMsg' = "Error: " \o message
    /\ submits' = RemoveAt(submits, i)
    /\ UNCHANGED <<siteVars, user, storeVars, isModalOpen, formVars, listVars, loads,
                   dashVars, loading, fetches>>

\* The store accepts the insert: the row is added, then onSuccess() and
\* onClose().
SubmitInsertOk(i) ==
    /\ alertMsg = NoAlert
    /\ i \in DOMAIN submits /\ submits[i].pc = "insert"
    /\ Len(transactions) + Len(transfers) < MaxRecords
    /\ LET r == submits[i].request
       IN  IF r.table = "transfers"
           THEN transfers' = Append(transfers, r.row) /\ UNCHANGED transactions
           ELSE transactions' = Append(transactions, r.row) /\ UNCHANGED transfers
    /\ StartFetch(submits[i].period, submits[i].category)
    /\ isModalOpen' = FALSE
    /\ submits' = RemoveAt(submits, i)
    /\ UNCHANGED <<siteVars, user, formVars, listVars, loads, alertMsg, dashVars>>

\* The user dismisses the alert; until then the page is blocked.
DismissAlert ==
    /\ alertMsg # NoAlert
    /\ alertMsg' = NoAlert
    /\ UNCHANGED <<siteVars, user, storeVars, isModalOpen, formVars, listVars, submits, loads,
                   dashVars, loading, fetches>>

(***************************************************************************)
(* Opening and closing the form, and the reference data loader.            *)
(***************************************************************************)
\* What a select() on accounts or categories resolves to: the user's rows,
\* or no data when the query fails.
QueryResults(ids) == {[isNull |-> FALSE, data |-> ids], [isNull |-> TRUE, data |-> {}]}

\* data || []
OrEmpty(result) == IF result.isNull THEN {} ELSE result.data

\* <button onClick={() => setIsModalOpen(true)}>, and the effect on [isOpen]:
\* fetchData runs up to auth.getUser().
OpenModal ==
    /\ ~isModalOpen /\ alertMsg = NoAlert
    /\ Len(loads) < MaxLoads
    /\ isModalOpen' = TRUE
    /\ loads' = Append(loads, [pc |-> "getUser"])
    /\ UNCHANGED <<siteVars, user, storeVars, formVars, listVars, submits, alertMsg,
                   dashVars, loading, fetches>>

\* <button onClick={onClose}>; the effect on [isOpen] runs fetchData, which
\* returns at once.
CloseModal ==
    /\ isModalOpen /\ alertMsg = NoAlert
    /\ isModalOpen' = FALSE
    /\ UNCHANGED <<siteVars, user, storeVars, formVars, listVars, submits, loads, alertMsg,
                   dashVars, loading, fetches>>

\* LoadGetUser without the check of the user.
LoadGetUser_NoCheck(i) ==
    /\ alertMsg = NoAlert
    /\ i \in DOMAIN loads /\ loads[i].pc = "getUser"
    /\ loads' = [loads EXCEPT ![i] = [pc |-> "accounts"]]
    /\ UNCHANGED <<siteVars, user, storeVars, isModalOpen, formVars, listVars, submits, alertMsg,
                   dashVars, loading, fetches>>

\* fetchData after auth.getUser(): without a user it returns, with one it
\* queries the accounts.
LoadGetUser(i) ==
    /\ alertMsg = NoAlert
    /\ i \in DOMAIN loads /\ loads[i].pc = "getUser"
    /\ IF user = NoUser
       THEN loads' = RemoveAt(loads, i)
       ELSE loads' = [loads EXCEPT ![i] = [pc |-> "accounts"]]
    /\ UNCHANGED <<siteVars, user, storeVars, isModalOpen, formVars, listVars, submits, alertMsg,
                   dashVars, loading, fetches>>

\* fetchData after the accounts query: it queries the categories.
LoadAccounts(i, accountsData) ==
    /\ alertMsg = NoAlert
    /\ i \in DOMAIN loads /\ loads[i].pc = "accounts"
    /\ accountsData \in QueryResults(AccountIds)
    /\ loads' = [loads EXCEPT ![i] = [pc |-> "categories", accountsData |-> accountsData]]
    /\ UNCHANGED <<siteVars, user, storeVars, isModalOpen, formVars, listVars, submits, alertMsg,
                   dashVars, loading, fetches>>

\* LoadCategories that keeps a list when its query brought no data.
LoadCategories_KeepPrior(i, categoriesData) ==
    /\ alertMsg = NoAlert
    /\ i \in DOMAIN loads /\ loads[i].pc = "categories"
    /\ categoriesData \in QueryResults(CategoryIds)
    /\ accounts' = IF loads[i].accountsData.isNull THEN accounts ELSE loads[i].accountsData.data
    /\ categories' = IF categoriesData.isNull THEN categories ELSE categoriesData.data
    /\ loads' = RemoveAt(loads, i)
    /\ UNCHANGED <<siteVars, user, storeVars, isModalOpen, formVars, submits, alertMsg,
                   dashVars, loading, fetches>>

\* fetchData after the categories query: setAccounts and setCategories.
LoadCategories(i, categoriesData) ==
    /\ alertMsg = NoAlert
    /\ i \in DOMAIN loads /\ loads[i].pc = "categories"
    /\ categoriesData \in QueryResults(CategoryIds)
    /\ accounts' = OrEmpty(loads[i].accountsData)
    /\ categories' = OrEmpty(categoriesData)
    /\ loads' = RemoveAt(loads, i)
    /\ UNCHANGED <<siteVars, user, storeVars, isModalOpen, formVars, submits, alertMsg,
                   dashVars, loading, fetches>>

\* The identity is lost (sign-out elsewhere, expired or revoked token) or
\* comes back.
AuthChange(u) ==
    /\ alertMsg = NoAlert
    /\ u \in (Users \cup {NoUser}) \ {user}
    /\ user' = u
    /\ UNCHANGED <<siteVars, storeVars, isModalOpen, formVars, listVars, submits, loads, alertMsg,
                   dashVars, loading, fetches>>

(***************************************************************************)
(* The dashboard.                                                          *)
(***************************************************************************)
\* .gte('date', startDate) and .lte('date', endDate), with startDate the
\* day parseInt(period) days before the day of the run and endDate that day.
InWindow(row, period) ==
    /\ DaysAgo[row.date] <= ParseInt[period]
    /\ DaysAgo[row.date] >= 0

RECURSIVE SumAmounts(_)
SumAmounts(S) ==
    IF S = {} THEN 0
    ELSE LET k == CHOOSE x \in S : TRUE
         IN  transactions[k].amount + SumAmounts(S \ {k})

\* rpc('get_performance_summary', {p_start_date, p_end_date}): one row
\* {kind, category_name, total_amount} for each kind and category that has
\* transactions in the window.
SummaryGroups ==
    <<[kind |-> "in", category |-> "cat-bus"], [kind |-> "in", category |-> "cat-in"],
      [kind |-> "in", category |-> "cat-out"], [kind |-> "out", category |-> "cat-bus"],
      [kind |-> "out", category |-> "cat-in"], [kind |-> "out", category |-> "cat-out"]>>

GroupRows(g, period) ==
    {k \in DOMAIN transactions :
        /\ InWindow(transactions[k], period)
        /\ transactions[k].kind = g.kind
        /\ transactions[k].category_id = g.category}

get_performance_summary(period) ==
    LET present == SelectSeq(SummaryGroups, LAMBDA g : GroupRows(g, period) # {})
    IN  [n \in DOMAIN present |->
            [kind |-> present[n].kind,
             category_name |-> CategoryName[present[n].category],
             total_amount |-> SumAmounts(GroupRows(present[n], period))]]

\* summaryData.filter(i => i.kind === kind).reduce((acc, i) => acc +
\* Number(i.total_amount), 0)
\* TotalOfKind that takes the first row of the kind for the total.
TotalOfKind_FirstOnly(summaryData, kind) ==
    LET rows == SelectSeq(summaryData, LAMBDA r : r.kind = kind)
    IN  IF rows = <<>> THEN 0 ELSE rows[1].total_amount

RECURSIVE TotalOfKind(_, _)
TotalOfKind(summaryData, kind) ==
    IF summaryData = <<>> THEN 0
    ELSE (IF Head(summaryData).kind = kind THEN Head(summaryData).total_amount ELSE 0)
         + TotalOfKind(Tail(summaryData), kind)

\* setKpiData({ingresos, gastos, balance: totalIngresos - totalGastos})
KpiOf(summaryData) ==
    LET totalIngresos == TotalOfKind(summaryData, "in")
        totalGastos == TotalOfKind(summaryData, "out")
    IN  [ingresos |-> totalIngresos, gastos |-> totalGastos,
         balance |-> totalIngresos - totalGastos]

\* ExpenseData without the filter on the kind.
ExpenseData_AllRows(summaryData) ==
    [n \in DOMAIN summaryData |->
        [name |-> summaryData[n].category_name, value |-> summaryData[n].total_amount]]

\* summaryData.filter(d => d.kind === 'out').map(d => ({name, value}))
ExpenseData(summaryData) ==
    LET out == SelectSeq(summaryData, LAMBDA d : d.kind = "out")
    IN  [n \in DOMAIN out |-> [name |-> out[n].category_name, value |-> out[n].total_amount]]

\* RecentMatches without the filter on the category.
RecentMatches_AnyCategory(period, category) ==
    {k \in DOMAIN transactions : InWindow(transactions[k], period)}

\* The rows the recent query matches: in the window and, unless the filter
\* is 'all', of the category.
RecentMatches(period, category) ==
    {k \in DOMAIN transactions :
        /\ InWindow(transactions[k], period)
        /\ category # "all" => transactions[k].category_id = category}

RecentLimit == 5

\* .order('date', {ascending: false}).limit(5): the newest matching rows,
\* newest first; rows of the same date come in an order the store chooses.
RECURSIVE NewestFirst(_, _)
NewestFirst(M, n) ==
    IF n = 0 \/ M = {} THEN {<<>>}
    ELSE LET age(k) == DaysAgo[transactions[k].date]
             newest == {k \in M : \A m \in M : age(k) <= age(m)}
         IN  UNION {{<<k>> \o rest : rest \in NewestFirst(M \ {k}, n - 1)} : k \in newest}

RecentResults(period, category) == NewestFirst(RecentMatches(period, category), RecentLimit)

\* (recentData || []).map(tx => ({...tx, categories: ...})): id, amount,
\* kind and date of each row; the id is the row's place in the collection.
RecentRows(s) ==
    [a \in DOMAIN s |->
        [id |-> s[a], amount |-> transactions[s[a]].amount,
         kind |-> transactions[s[a]].kind, date |-> transactions[s[a]].date]]

\* The two effects of the first render: fetchCategories() sends its select
\* on categories, and fetchDashboardData() runs up to auth.getUser().
\* Before them loading is true and nothing is in flight, which no later
\* state repeats.
EffectsPending == loading /\ fetches = <<>>

Mount ==
    /\ alertMsg = NoAlert
    /\ EffectsPending
    /\ categoriesFetch' = TRUE
    /\ fetches' = <<[pc |-> "getUser", period |-> activePeriod, category |-> activeCategory]>>
    /\ UNCHANGED <<siteVars, user, storeVars, isModalOpen, formVars, listVars, submits, loads, alertMsg,
                   activePeriod, activeCategory, kpiData, pieChartData, recentTransactions,
                   dashCategories, loading>>

\* <select value={activePeriod} onChange={...setActivePeriod}>; a new
\* period makes a new fetchDashboardData, which the effect calls.
ChangePeriod(p) ==
    /\ alertMsg = NoAlert /\ ~isModalOpen /\ ~EffectsPending
    /\ p \in Periods \ {activePeriod}
    /\ activePeriod' = p
    /\ StartFetch(p, activeCategory)
    /\ UNCHANGED <<siteVars, user, storeVars, isModalOpen, formVars, listVars, submits, loads, alertMsg,
                   activeCategory, kpiData, pieChartData, recentTransactions,
                   dashCategories, categoriesFetch>>

\* <select value={activeCategory} onChange={...setActiveCategory}>
ChangeCategory(c) ==
    /\ alertMsg = NoAlert /\ ~isModalOpen /\ ~EffectsPending
    /\ c \in ({"all"} \cup dashCategories) \ {activeCategory}
    /\ activeCategory' = c
    /\ StartFetch(activePeriod, c)
    /\ UNCHANGED <<siteVars, user, storeVars, isModalOpen, formVars, listVars, submits, loads, alertMsg,
                   activePeriod, kpiData, pieChartData, recentTransactions,
                   dashCategories, categoriesFetch>>

\* fetchCategories, called once on mount: setCategories(data) unless the
\* query failed.
FetchCategoriesReturn(result) ==
    /\ alertMsg = NoAlert
    /\ categoriesFetch
    /\ result \in QueryResults(StoredCategoryIds)
    /\ categoriesFetch' = FALSE
    /\ dashCategories' = IF result.isNull THEN dashCategories ELSE result.data
    /\ UNCHANGED <<siteVars, user, storeVars, isModalOpen, formVars, listVars, submits, loads, alertMsg,
                   activePeriod, activeCategory, kpiData, pieChartData, recentTransactions,
                   loading, fetches>>

\* FetchFailed that alerts the error.
FetchFailed_Alerts(i) ==
    /\ loading' = FALSE
    /\ fetches' = RemoveAt(fetches, i)
    /\ alertMsg' = "Error fetching dashboard data"
    /\ UNCHANGED <<siteVars, user, storeVars, isModalOpen, formVars, listVars, submits, loads,
                   dashVars>>

\* FetchFailed that clears what the dashboard shows.
FetchFailed_Clears(i) ==
    /\ loading' = FALSE
    /\ fetches' = RemoveAt(fetches, i)
    /\ kpiData' = [ingresos |-> 0, gastos |-> 0, balance |-> 0]
    /\ pieChartData' = <<>>
    /\ recentTransactions' = <<>>
    /\ UNCHANGED <<siteVars, user, storeVars, isModalOpen, formVars, listVars, submits, loads, alertMsg,
                   activePeriod, activeCategory, dashCategories, categoriesFetch>>

\* The catch and finally of fetchDashboardData: the error is logged and
\* setLoading(false).
FetchFailed(i) ==
    /\ loading' = FALSE
    /\ fetches' = RemoveAt(fetches, i)
    /\ UNCHANGED <<siteVars, user, storeVars, isModalOpen, formVars, listVars, submits, loads, alertMsg,
                   dashVars>>

\* fetchDashboardData after auth.getUser(): without a user it throws; with
\* one it calls the rpc for the window of its period.
FetchGetUser(i) ==
    /\ alertMsg = NoAlert
    /\ i \in DOMAIN fetches /\ fetches[i].pc = "getUser"
    /\ IF user = NoUser
       THEN FetchFailed(i)
       ELSE /\ fetches' = [fetches EXCEPT ![i].pc = "rpc"]
            /\ UNCHANGED <<siteVars, user, storeVars, isModalOpen, formVars, listVars, submits, loads,
                           alertMsg, dashVars, loading>>

\* FetchSummaryOk whose summary counts the rows of the fetch's category only.
FetchSummaryOk_OfCategory(i) ==
    /\ alertMsg = NoAlert
    /\ i \in DOMAIN fetches /\ fetches[i].pc = "rpc"
    /\ LET summaryData ==
               SelectSeq(get_performance_summary(fetches[i].period),
                         LAMBDA d : \/ fetches[i].category = "all"
                                    \/ d.category_name = CategoryName[fetches[i].category])
       IN  /\ kpiData' = KpiOf(summaryData)
           /\ pieChartData' = ExpenseData(summaryData)
    /\ fetches' = [fetches EXCEPT ![i].pc = "recent"]
    /\ UNCHANGED <<siteVars, user, storeVars, isModalOpen, formVars, listVars, submits, loads, alertMsg,
                   activePeriod, activeCategory, recentTransactions, dashCategories,
                   categoriesFetch, loading>>

\* The rpc answers with the summary: setKpiData and setPieChartData, then
\* the recent query is sent.
FetchSummaryOk(i) ==
    /\ alertMsg = NoAlert
    /\ i \in DOMAIN fetches /\ fetches[i].pc = "rpc"
    /\ LET summaryData == get_performance_summary(fetches[i].period)
       IN  /\ kpiData' = KpiOf(summaryData)
           /\ pieChartData' = ExpenseData(summaryData)
    /\ fetches' = [fetches EXCEPT ![i].pc = "recent"]
    /\ UNCHANGED <<siteVars, user, storeVars, isModalOpen, formVars, listVars, submits, loads, alertMsg,
                   activePeriod, activeCategory, recentTransactions, dashCategories,
                   categoriesFetch, loading>>

\* The rpc answers with an error: throw rpcError.
FetchSummaryError(i) ==
    /\ alertMsg = NoAlert
    /\ i \in DOMAIN fetches /\ fetches[i].pc = "rpc"
    /\ FetchFailed(i)

\* The recent query answers with rows: setRecentTransactions, and finally
\* setLoading(false).
FetchRecentOk(i) ==
    /\ alertMsg = NoAlert
    /\ i \in DOMAIN fetches /\ fetches[i].pc = "recent"
    /\ \E recentData \in RecentResults(fetches[i].period, fetches[i].category) :
           recentTransactions' = RecentRows(recentData)
    /\ loading' = FALSE
    /\ fetches' = RemoveAt(fetches, i)
    /\ UNCHANGED <<siteVars, user, storeVars, isModalOpen, formVars, listVars, submits, loads, alertMsg,
                   activePeriod, activeCategory, kpiData, pieChartData, dashCategories,
                   categoriesFetch>>

\* The recent query answers with an error: throw recentError.
FetchRecentError(i) ==
    /\ alertMsg = NoAlert
    /\ i \in DOMAIN fetches /\ fetches[i].pc = "recent"
    /\ FetchFailed(i)

(***************************************************************************)
(* The entry form at work.  The run starts with the form open after some   *)
(* editing: the loader has written the lists (each query has answered or   *)
(* failed), the user has chosen a tab and has filled the fields of its     *)
(* form from the texts and the options on offer, and nothing has been      *)
(* submitted yet.  The dashboard behind it is at rest.                     *)
(***************************************************************************)
EditedForms(fresh, fields) ==
    {[fresh EXCEPT !.values = v] :
        v \in {w \in [DOMAIN fresh.values -> TypedAmounts \cup TypedDates \cup TypedNotes \cup Uuids] :
                 /\ w.amount \in TypedAmounts
                 /\ w.date \in TypedDates
                 /\ w.note \in TypedNotes
                 /\ \A f \in fields : w[f] \in Options(f)}}

Init ==
    /\ SiteAtDashboard
    /\ user \in Users \cup {NoUser}
    /\ transactions = <<>>
    /\ transfers = <<>>
    /\ isModalOpen = TRUE
    /\ activeTab \in Tabs
    /\ accounts \in {OrEmpty(r) : r \in QueryResults(AccountIds)}
    /\ categories \in {OrEmpty(r) : r \in QueryResults(CategoryIds)}
    /\ transactionForm \in IF activeTab = "transfer" THEN {NewTransactionForm}
                           ELSE EditedForms(NewTransactionForm, {"account_id", "category_id"})
    /\ transferForm \in IF activeTab # "transfer" THEN {NewTransferForm}
                        ELSE EditedForms(NewTransferForm, {"from_account_id", "to_account_id"})
    /\ submits = <<>>
    /\ loads = <<>>
    /\ alertMsg = NoAlert
    /\ activePeriod = "30"
    /\ activeCategory = "all"
    /\ loading = FALSE
    /\ kpiData = [ingresos |-> 0, gastos |-> 0, balance |-> 0]
    /\ pieChartData = <<>>
    /\ recentTransactions = <<>>
    /\ dashCategories = CategoryIds
    /\ categoriesFetch = FALSE
    /\ fetches = <<>>

\* The selections are those made before the run; the user goes on typing
\* in the amount, the date and the note while handlers are in flight.
TypedFields == {"amount", "date", "note"}
TypedTexts == TypedAmounts \cup TypedDates \cup TypedNotes

Next ==
    \/ \E tab \in Tabs : SetActiveTab(tab)
    \/ \E field \in TypedFields, text \in TypedTexts : TransactionField(field, text)
    \/ \E field \in TypedFields, text \in TypedTexts : TransferField(field, text)
    \/ Submit
    \/ \E i \in 1..MaxSubmits : SubmitGetUser(i)
    \/ \E i \in 1..MaxSubmits, message \in StoreErrors : SubmitInsertError(i, message)
    \/ \E i \in 1..MaxSubmits : SubmitInsertOk(i)
    \/ DismissAlert
    \/ CloseModal
    \/ \E u \in Users \cup {NoUser} : AuthChange(u)

Spec == Init /\ [][Next]_vars

(***************************************************************************)
(* The entry form from the mount of the dashboard: the form is closed on   *)
(* the Expense tab with empty lists and fresh forms, and the dashboard's   *)
(* first fetchDashboardData is waiting for auth.getUser().  The run opens  *)
(* and closes the form, lets the loader work, changes tabs and chooses     *)
(* among the options on offer.                                             *)
(***************************************************************************)
InitMounted ==
    /\ SiteAtDashboard
    /\ user \in Users
    /\ transactions = <<>>
    /\ transfers = <<>>
    /\ isModalOpen = FALSE
    /\ activeTab = "expense"
    /\ accounts = {}
    /\ categories = {}
    /\ transactionForm = NewTransactionForm
    /\ transferForm = NewTransferForm
    /\ submits = <<>>
    /\ loads = <<>>
    /\ alertMsg = NoAlert
    /\ activePeriod = "30"
    /\ activeCategory = "all"
    /\ loading = TRUE
    /\ kpiData = [ingresos |-> 0, gastos |-> 0, balance |-> 0]
    /\ pieChartData = <<>>
    /\ recentTransactions = <<>>
    /\ dashCategories = {}
    /\ categoriesFetch = TRUE
    /\ fetches = <<[pc |-> "getUser", period |-> "30", category |-> "all"]>>

NextFill ==
    \/ OpenModal
    \/ CloseModal
    \/ \E i \in 1..MaxLoads : LoadGetUser(i)
    \/ \E i \in 1..MaxLoads, d \in QueryResults(AccountIds) : LoadAccounts(i, d)
    \/ \E i \in 1..MaxLoads, d \in QueryResults(CategoryIds) : LoadCategories(i, d)
    \/ \E u \in Users \cup {NoUser} : AuthChange(u)
    \/ \E tab \in Tabs : SetActiveTab(tab)
    \/ \E field \in {"account_id", "category_id"}, text \in {""} \cup Uuids :
           TransactionField(field, text)
    \/ \E field \in {"from_account_id", "to_account_id"}, text \in {""} \cup Uuids :
           TransferField(field, text)

SpecFill == InitMounted /\ [][NextFill]_vars

(***************************************************************************)
(* The dashboard from its mount, over a store that holds the rows of       *)
(* earlier sessions: none; or an expense of the day and an income and an   *)
(* expense of twelve days before; or six rows of four dates within the     *)
(* last thirty days, in no order of date, with an income category and two  *)
(* expense categories.                                                     *)
(***************************************************************************)
StoredRow(kind, category, date) ==
    [account_id |-> "acc-1", category_id |-> category, amount |-> 50, date |-> date,
     note |-> "", user_id |-> "u1", kind |-> kind]

StoredTransactions ==
    {<<>>,
     <<StoredRow("out", "cat-out", Today), StoredRow("in", "cat-in", Earlier),
       StoredRow("out", "cat-out", Earlier)>>,
     <<StoredRow("out", "cat-bus", Before), StoredRow("out", "cat-out", Today),
       StoredRow("in", "cat-in", Earlier), StoredRow("out", "cat-bus", Today),
       StoredRow("out", "cat-out", Earlier), StoredRow("in", "cat-in", LastWeek)>>}

InitDash ==
    /\ SiteAtDashboard
    /\ user \in Users
    /\ transactions \in StoredTransactions
    /\ transfers = <<>>
    /\ isModalOpen = FALSE
    /\ activeTab = "expense"
    /\ accounts = {}
    /\ categories = {}
    /\ transactionForm = NewTransactionForm
    /\ transferForm = NewTransferForm
    /\ submits = <<>>
    /\ loads = <<>>
    /\ alertMsg = NoAlert
    /\ activePeriod = "30"
    /\ activeCategory = "all"
    /\ loading = TRUE
    /\ kpiData = [ingresos |-> 0, gastos |-> 0, balance |-> 0]
    /\ pieChartData = <<>>
    /\ recentTransactions = <<>>
    /\ dashCategories = {}
    /\ categoriesFetch = TRUE
    /\ fetches = <<[pc |-> "getUser", period |-> "30", category |-> "all"]>>

\* The run changes the period between 7 and 30 days, and the category
\* filter between all categories and one of the expense categories.
DrawnPeriods == {"7", "30"}
DrawnCategories == {"all", "cat-out"}

NextDash ==
    \/ \E p \in DrawnPeriods : ChangePeriod(p)
    \/ \E c \in DrawnCategories : ChangeCategory(c)
    \/ \E r \in QueryResults(StoredCategoryIds) : FetchCategoriesReturn(r)
    \/ \E i \in 1..MaxFetches : FetchGetUser(i)
    \/ \E i \in 1..MaxFetches : FetchSummaryOk(i)
    \/ \E i \in 1..MaxFetches : FetchSummaryError(i)
    \/ \E i \in 1..MaxFetches : FetchRecentOk(i)
    \/ \E i \in 1..MaxFetches : FetchRecentError(i)
    \/ \E u \in Users \cup {NoUser} : AuthChange(u)

SpecDash == InitDash /\ [][NextDash]_vars

(***************************************************************************)
(* The dashboard when the user stays signed in and every request is        *)
(* answered without an error.                                              *)
(***************************************************************************)
NextAnswered ==
    \/ \E p \in DrawnPeriods : ChangePeriod(p)
    \/ \E c \in DrawnCategories : ChangeCategory(c)
    \/ \E r \in {x \in QueryResults(StoredCategoryIds) : ~x.isNull} : FetchCategoriesReturn(r)
    \/ \E i \in 1..MaxFetches : FetchGetUser(i)
    \/ \E i \in 1..MaxFetches : FetchSummaryOk(i)
    \/ \E i \in 1..MaxFetches : FetchRecentOk(i)

SpecAnswered == InitDash /\ [][NextAnswered]_vars

(***************************************************************************)
(* A session with the form at work: the entry is submitted and saved, the  *)
(* form is closed and opened again, the loader runs again and the tab is   *)
(* changed.                                                                *)
(***************************************************************************)
NextSession ==
    \/ \E tab \in Tabs : SetActiveTab(tab)
    \/ Submit
    \/ \E i \in 1..MaxSubmits : SubmitGetUser(i)
    \/ \E i \in 1..MaxSubmits : SubmitInsertOk(i)
    \/ CloseModal
    \/ OpenModal
    \/ \E i \in 1..MaxLoads : LoadGetUser(i)
    \/ \E i \in 1..MaxLoads, d \in QueryResults(AccountIds) : LoadAccounts(i, d)
    \/ \E i \in 1..MaxLoads, d \in QueryResults(CategoryIds) : LoadCategories(i, d)

SpecSession == Init /\ [][NextSession]_vars

(***************************************************************************)
(* The form at work over the dashboard: an entry is submitted and saved,   *)
(* the form is closed, and the dashboard's filters are changed while the   *)
(* submit handler is in flight.                                            *)
(***************************************************************************)
NextSignal ==
    \/ Submit
    \/ \E i \in 1..MaxSubmits : SubmitGetUser(i)
    \/ \E i \in 1..MaxSubmits : SubmitInsertOk(i)
    \/ CloseModal
    \/ \E p \in DrawnPeriods : ChangePeriod(p)
    \/ \E c \in DrawnCategories : ChangeCategory(c)

SpecSignal == Init /\ [][NextSignal]_vars

(***************************************************************************)
(* The form at work on an income or an expense: the tab is changed, the    *)
(* amount is typed, account and category are chosen among the options on   *)
(* offer, and entries are submitted and saved.                             *)
(***************************************************************************)
NextEntry ==
    \/ \E tab \in Tabs : SetActiveTab(tab)
    \/ \E field \in {"amount", "account_id", "category_id"}, text \in {"", "50"} \cup Uuids :
           TransactionField(field, text)
    \/ Submit
    \/ \E i \in 1..MaxSubmits : SubmitGetUser(i)
    \/ \E i \in 1..MaxSubmits : SubmitInsertOk(i)

SpecEntry == Init /\ [][NextEntry]_vars

(***************************************************************************)
(* The dashboard from its first render, before its effects have run, with  *)
(* or without a user; every request is answered without an error.          *)
(***************************************************************************)
InitRendered ==
    /\ SiteAtDashboard
    /\ user \in Users \cup {NoUser}
    /\ transactions \in StoredTransactions
    /\ transfers = <<>>
    /\ isModalOpen = FALSE
    /\ activeTab = "expense"
    /\ accounts = {}
    /\ categories = {}
    /\ transactionForm = NewTransactionForm
    /\ transferForm = NewTransferForm
    /\ submits = <<>>
    /\ loads = <<>>
    /\ alertMsg = NoAlert
    /\ activePeriod = "30"
    /\ activeCategory = "all"
    /\ loading = TRUE
    /\ kpiData = [ingresos |-> 0, gastos |-> 0, balance |-> 0]
    /\ pieChartData = <<>>
    /\ recentTransactions = <<>>
    /\ dashCategories = {}
    /\ categoriesFetch = FALSE
    /\ fetches = <<>>

NextMount ==
    \/ Mount
    \/ \E p \in DrawnPeriods : ChangePeriod(p)
    \/ \E r \in {x \in QueryResults(StoredCategoryIds) : ~x.isNull} : FetchCategoriesReturn(r)
    \/ \E i \in 1..MaxFetches : FetchGetUser(i)
    \/ \E i \in 1..MaxFetches : FetchSummaryOk(i)
    \/ \E i \in 1..MaxFetches : FetchRecentOk(i)

SpecMount == InitRendered /\ [][NextMount]_vars

(***************************************************************************)
(* The router of App and the login page.                                   *)
(***************************************************************************)
MaxAuths == 2        \* handleAuth calls in flight at once

\* Everything of the dashboard and the entry form but the user and the alert.
entryVars == <<storeVars, isModalOpen, formVars, listVars, submits, loads, dashVars,
               loading, fetches>>

\* The element of the route that matches the location p under session s:
\* a page, or <Navigate to=...>.
Page(name) == [kind |-> "page", name |-> name]
Navigate(to) == [kind |-> "navigate", name |-> to]

\* Element with the categories route outside the guard of the session.
Element_CategoriesOpen(p, s) ==
    CASE p = "/"           -> IF s = NoUser THEN Page("LoginPage") ELSE Navigate("/dashboard")
      [] p = "/dashboard"  -> IF s # NoUser THEN Page("DashboardPage") ELSE Navigate("/")
      [] p = "/accounts"   -> IF s # NoUser THEN Page("AccountsPage") ELSE Navigate("/")
      [] p = "/categories" -> Page("CategoriesPage")

Element(p, s) ==
    CASE p = "/"           -> IF s = NoUser THEN Page("LoginPage") ELSE Navigate("/dashboard")
      [] p = "/dashboard"  -> IF s # NoUser THEN Page("DashboardPage") ELSE Navigate("/")
      [] p = "/accounts"   -> IF s # NoUser THEN Page("AccountsPage") ELSE Navigate("/")
      [] p = "/categories" -> IF s # NoUser THEN Page("CategoriesPage") ELSE Navigate("/")

Rendered == Element(path, session)

\* The login page's state after a step that leaves the location p and the
\* session s: a login page that mounts in the step starts from its initial
\* state, and the handleAuth calls of the page it replaces can no longer
\* set its state.
LoginAfter(p, s, after) ==
    IF Element(p, s) = Page("LoginPage") /\ Rendered # Page("LoginPage")
    THEN [isLogin |-> TRUE, loading |-> FALSE, error |-> NoError,
          auths |-> [i \in DOMAIN after.auths |-> [after.auths[i] EXCEPT !.live = FALSE]]]
    ELSE after

LoginNow == [isLogin |-> isLogin, loading |-> authLoading, error |-> authError, auths |-> auths]

SetLogin(l) ==
    /\ isLogin' = l.isLogin
    /\ authLoading' = l.loading
    /\ authError' = l.error
    /\ auths' = l.auths

\* getSession().then(...) and the onAuthStateChange callback: setSession.
SetSession ==
    /\ session # user
    /\ session' = user
    /\ SetLogin(LoginAfter(path, user, LoginNow))
    /\ UNCHANGED <<walletVars, path, pageVars>>

\* The effect of a rendered <Navigate to=...>.
Redirect ==
    /\ Rendered.kind = "navigate"
    /\ path' = Rendered.name
    /\ SetLogin(LoginAfter(Rendered.name, session, LoginNow))
    /\ UNCHANGED <<walletVars, session, pageVars>>

\* A link of the layout's navigation, shown around every protected page.
GoTo(p) ==
    /\ Rendered.kind = "page" /\ Rendered # Page("LoginPage")
    /\ p \in ProtectedPaths \ {path}
    /\ path' = p
    /\ UNCHANGED <<walletVars, session, loginVars, pageVars>>

\* AppLayout.handleLogout: await supabase.auth.signOut(); navigate('/').
handleLogout ==
    /\ Rendered.kind = "page" /\ Rendered # Page("LoginPage")
    /\ user' = NoUser
    /\ path' = "/"
    /\ SetLogin(LoginAfter("/", session, LoginNow))
    /\ UNCHANGED <<entryVars, alertMsg, session, pageVars>>

\* The session ends outside the page (it expires, or is closed elsewhere).
SessionEnds ==
    /\ user # NoUser
    /\ user' = NoUser
    /\ UNCHANGED <<entryVars, alertMsg, siteVars>>

\* onClick of the link under the form: setIsLogin(!isLogin); setError(null).
ToggleMode ==
    /\ Rendered = Page("LoginPage")
    /\ isLogin' = ~isLogin
    /\ authError' = NoError
    /\ UNCHANGED <<walletVars, routeVars, authLoading, auths, pageVars>>

\* handleAuth that leaves loading alone.
handleAuth_NoLoading ==
    /\ Rendered = Page("LoginPage")
    /\ ~authLoading
    /\ Len(auths) < MaxAuths
    /\ authError' = NoError
    /\ auths' = Append(auths, [kind |-> IF isLogin THEN "signIn" ELSE "signUp", live |-> TRUE])
    /\ UNCHANGED <<walletVars, routeVars, isLogin, authLoading, pageVars>>

\* handleAuth up to its await: the submit button is disabled while loading.
handleAuth ==
    /\ Rendered = Page("LoginPage")
    /\ ~authLoading
    /\ Len(auths) < MaxAuths
    /\ authLoading' = TRUE
    /\ authError' = NoError
    /\ auths' = Append(auths, [kind |-> IF isLogin THEN "signIn" ELSE "signUp", live |-> TRUE])
    /\ UNCHANGED <<walletVars, routeVars, isLogin, pageVars>>

\* The auth request fails: throw error; setError(err.message);
\* setLoading(false).
AuthRejected(i, message) ==
    /\ i \in DOMAIN auths
    /\ message \in AuthErrors
    /\ auths' = RemoveAt(auths, i)
    /\ IF auths[i].live
       THEN authError' = message /\ authLoading' = FALSE
       ELSE UNCHANGED <<authError, authLoading>>
    /\ UNCHANGED <<walletVars, routeVars, isLogin, pageVars>>

\* The auth request succeeds: navigate('/dashboard'); setLoading(false).  A
\* sign-in signs the user in; a sign-up does so unless the address has to
\* be confirmed first.
AuthAccepted(i, u) ==
    /\ i \in DOMAIN auths
    /\ u \in IF auths[i].kind = "signIn" THEN Users ELSE Users \cup {user}
    /\ user' = u
    /\ path' = "/dashboard"
    /\ auths' = RemoveAt(auths, i)
    /\ authLoading' = IF auths[i].live THEN FALSE ELSE authLoading
    /\ UNCHANGED <<isLogin, authError>>
    /\ UNCHANGED <<entryVars, alertMsg, session, pageVars>>

(***************************************************************************)
(* The site from its first render: no session has been read yet, the       *)
(* location is any of the routes, and the user is signed in or not.  The   *)
(* run reads the session, follows redirects and links, signs in, up and    *)
(* out.                                                                    *)
(***************************************************************************)
\* The dashboard and the entry form as they are before the dashboard mounts.
WalletIdle ==
    /\ transactions = <<>>
    /\ transfers = <<>>
    /\ isModalOpen = FALSE
    /\ activeTab = "expense"
    /\ accounts = {}
    /\ categories = {}
    /\ transactionForm = NewTransactionForm
    /\ transferForm = NewTransferForm
    /\ submits = <<>>
    /\ loads = <<>>
    /\ alertMsg = NoAlert
    /\ activePeriod = "30"
    /\ activeCategory = "all"
    /\ loading = TRUE
    /\ kpiData = [ingresos |-> 0, gastos |-> 0, balance |-> 0]
    /\ pieChartData = <<>>
    /\ recentTransactions = <<>>
    /\ dashCategories = {}
    /\ categoriesFetch = FALSE
    /\ fetches = <<>>

InitSite ==
    /\ user \in Users \cup {NoUser}
    /\ WalletIdle
    /\ session = NoUser
    /\ path \in Paths
    /\ LoginMounted
    /\ tables = [t \in {"accounts", "categories"} |-> {}]
    /\ PageMounted("/accounts")

NextSite ==
    \/ SetSession
    \/ Redirect
    \/ \E p \in Paths : GoTo(p)
    \/ handleLogout
    \/ SessionEnds
    \/ ToggleMode
    \/ handleAuth
    \/ \E i \in 1..MaxAuths, message \in AuthErrors : AuthRejected(i, message)
    \/ \E i \in 1..MaxAuths, u \in Users \cup {NoUser} : AuthAccepted(i, u)

SpecSite == InitSite /\ [][NextSite]_vars

(***************************************************************************)
(* The pages of accounts and categories.  The two pages have the same      *)
(* handlers over their own collection and schema; the page at work is the  *)
(* one of the location.  window.confirm and alert block the page until     *)
(* they are answered.                                                      *)
(***************************************************************************)
MaxRequests == 2     \* page handlers in flight at once

PageFree == alertMsg = NoAlert /\ dialog = NoRecord

Table == TableOf[path]

\* The rows of the store before the run.
StoredTables ==
    [t \in {"accounts", "categories"} |->
        IF t = "accounts"
        THEN {[id |-> 1, name |-> "Banco", opening_balance |-> 50, user_id |-> "u1"],
              [id |-> 2, name |-> "Efectivo", opening_balance |-> 0, user_id |-> "u1"]}
        ELSE {[id |-> 1, name |-> "Comida", type |-> "expense", user_id |-> "u1"],
              [id |-> 2, name |-> "Salario", type |-> "income", user_id |-> "u1"]}]

\* The values openModalForEdit hands to reset().
ValuesOf(p, record) ==
    IF p = "/accounts"
    THEN [name |-> record.name, opening_balance |-> NumberText(record.opening_balance)]
    ELSE [name |-> record.name, type |-> record.type]

\* fetchAccounts() / fetchCategories() up to auth.getUser().
StartPageFetch(others) ==
    /\ pageLoading' = TRUE
    /\ requests' = Append(others, [op |-> "fetch", pc |-> "getUser"])

\* The id the store gives to an inserted row.
NextId(rows) == 1 + Cardinality(rows)

\* The rows of the page's collection that are not as they were stored, and
\* the stored rows that are gone.
StoreChanges ==
    Cardinality(tables[Table] \ StoredTables[Table])
        + Cardinality({r \in StoredTables[Table] : \A w \in tables[Table] : w.id # r.id})

\* openModalForNew that keeps the record of the last edit.
openModalForNew_KeepsEditing ==
    /\ PageFree /\ ~showModal
    /\ pageForm' = NewPageForm(path, PageDefaults(path))
    /\ showModal' = TRUE
    /\ UNCHANGED <<walletVars, routeVars, loginVars, tables, records, pageLoading, editing,
                   requests, dialog>>

openModalForNew ==
    /\ PageFree /\ ~showModal
    /\ pageForm' = NewPageForm(path, PageDefaults(path))
    /\ editing' = NoRecord
    /\ showModal' = TRUE
    /\ UNCHANGED <<walletVars, routeVars, loginVars, tables, records, pageLoading, requests,
                   dialog>>

\* The edit button of a row of the list, which is rendered when not loading.
openModalForEdit(record) ==
    /\ PageFree /\ ~showModal /\ ~pageLoading
    /\ record \in records
    /\ editing' = record
    /\ pageForm' = NewPageForm(path, ValuesOf(path, record))
    /\ showModal' = TRUE
    /\ UNCHANGED <<walletVars, routeVars, loginVars, tables, records, pageLoading, requests,
                   dialog>>

\* The X button of the form: setShowModal(false).
HideModal ==
    /\ PageFree /\ showModal
    /\ showModal' = FALSE
    /\ UNCHANGED <<walletVars, routeVars, loginVars, tables, records, pageLoading, editing,
                   pageForm, requests, dialog>>

\* onChange of a registered input of the page's form.
PageField(field, text) ==
    /\ PageFree /\ showModal
    /\ field \in DOMAIN pageForm.values
    /\ \/ field = "name" /\ text \in TypedNames
       \/ field = "opening_balance" /\ text \in TypedBalances
       \/ field = "type" /\ text \in CategoryTypes
    /\ text # pageForm.values[field]
    /\ LET changed == ChangeField(pageForm, field, text)
       IN  pageForm' = Revalidate(changed, field, PageSchema(path, PageFieldValues(path, changed)))
    /\ UNCHANGED <<walletVars, routeVars, loginVars, tables, records, pageLoading, showModal,
                   editing, requests, dialog>>

\* handleSubmit(onSubmit): with errors they are shown and onSubmit is not
\* called; without, onSubmit starts with the parsed data and runs up to
\* auth.getUser().  The handler closes over the editing record of this
\* render.
PageSubmit ==
    /\ PageFree /\ showModal
    /\ LET values == PageFieldValues(path, pageForm)
           errors == PageSchema(path, values)
       IN  IF errors # NoPageErrors(path)
           THEN /\ pageForm' = [pageForm EXCEPT !.errors = errors, !.isSubmitted = TRUE]
                /\ UNCHANGED requests
           ELSE /\ Len(requests) < MaxRequests
                /\ pageForm' = [pageForm EXCEPT !.errors = errors, !.isSubmitted = TRUE]
                /\ requests' = Append(requests,
                                      [op |-> "submit", pc |-> "getUser", editing |-> editing,
                                       data |-> ParsedPage(path, values)])
    /\ UNCHANGED <<walletVars, routeVars, loginVars, tables, records, pageLoading, showModal,
                   editing, dialog>>

\* onSubmit after auth.getUser(): without a user it returns; with one it
\* sends the update of the record it closed over, or the insert.
OnSubmitUser(i) ==
    /\ PageFree
    /\ i \in DOMAIN requests /\ requests[i].op = "submit" /\ requests[i].pc = "getUser"
    /\ IF user = NoUser
       THEN requests' = RemoveAt(requests, i)
       ELSE requests' = [requests EXCEPT ![i] =
                [op |-> "submit",
                 pc |-> IF requests[i].editing # NoRecord THEN "update" ELSE "insert",
                 id |-> requests[i].editing.id,
                 row |-> [f \in DOMAIN requests[i].data \cup {"user_id"} |->
                              IF f = "user_id" THEN user ELSE requests[i].data[f]]]]
    /\ UNCHANGED <<walletVars, routeVars, loginVars, tables, records, pageLoading, showModal,
                   editing, pageForm, dialog>>

\* The row an update or an insert leaves in the collection.
Written(request, r) ==
    [f \in DOMAIN request.row \cup {"id"} |-> IF f = "id" THEN r ELSE request.row[f]]

\* The store accepts the update or the insert: setShowModal(false) and
\* the list is fetched again.
WriteOk(i) ==
    /\ PageFree
    /\ i \in DOMAIN requests /\ requests[i].op = "submit" /\ requests[i].pc # "getUser"
    /\ StoreChanges < MaxRecords
    /\ LET request == requests[i]
           rows == tables[Table]
       IN  IF request.pc = "update"
           THEN tables' = [tables EXCEPT ![Table] =
                              {IF r.id = request.id THEN Written(request, r.id) ELSE r : r \in rows}]
           ELSE tables' = [tables EXCEPT ![Table] = rows \cup {Written(request, NextId(rows))}]
    /\ showModal' = FALSE
    /\ StartPageFetch(RemoveAt(requests, i))
    /\ UNCHANGED <<walletVars, routeVars, loginVars, records, editing, pageForm, dialog>>

\* The store rejects the update or the insert: alert(error.message).
WriteError(i, message) ==
    /\ PageFree
    /\ i \in DOMAIN requests /\ requests[i].op = "submit" /\ requests[i].pc # "getUser"
    /\ message \in StoreErrors
    /\ alertMsg' = message
    /\ requests' = RemoveAt(requests, i)
    /\ UNCHANGED <<user, entryVars, routeVars, loginVars, tables, records, pageLoading, showModal,
                   editing, pageForm, dialog>>

\* deleteAccount / deleteCategory up to window.confirm: the delete button
\* of a row of the list.
AskDelete(record) ==
    /\ PageFree /\ ~showModal /\ ~pageLoading
    /\ record \in records
    /\ dialog' = [id |-> record.id]
    /\ UNCHANGED <<walletVars, routeVars, loginVars, tables, records, pageLoading, showModal,
                   editing, pageForm, requests>>

\* The user cancels: nothing is sent.
CancelDelete ==
    /\ alertMsg = NoAlert /\ dialog # NoRecord
    /\ dialog' = NoRecord
    /\ UNCHANGED <<walletVars, routeVars, loginVars, tables, records, pageLoading, showModal,
                   editing, pageForm, requests>>

\* The user confirms: the delete of the row is sent.
ConfirmDelete ==
    /\ alertMsg = NoAlert /\ dialog # NoRecord
    /\ Len(requests) < MaxRequests
    /\ dialog' = NoRecord
    /\ requests' = Append(requests, [op |-> "delete", pc |-> "delete", id |-> dialog.id])
    /\ UNCHANGED <<walletVars, routeVars, loginVars, tables, records, pageLoading, showModal,
                   editing, pageForm>>

\* DeleteError that fetches the list all the same.
DeleteError_Refetches(i) ==
    /\ PageFree
    /\ i \in DOMAIN requests /\ requests[i].op = "delete"
    /\ alertMsg' = IF Table = "accounts" THEN MsgDeleteAccount ELSE MsgDeleteCategory
    /\ StartPageFetch(RemoveAt(requests, i))
    /\ UNCHANGED <<user, entryVars, routeVars, loginVars, tables, records, showModal, editing,
                   pageForm, dialog>>

\* The store rejects the delete: alert(...).
DeleteError(i) ==
    /\ PageFree
    /\ i \in DOMAIN requests /\ requests[i].op = "delete"
    /\ alertMsg' = IF Table = "accounts" THEN MsgDeleteAccount ELSE MsgDeleteCategory
    /\ requests' = RemoveAt(requests, i)
    /\ UNCHANGED <<user, entryVars, routeVars, loginVars, tables, records, pageLoading, showModal,
                   editing, pageForm, dialog>>

\* The store accepts the delete: the list is fetched again.
DeleteOk(i) ==
    /\ PageFree
    /\ i \in DOMAIN requests /\ requests[i].op = "delete"
    /\ StoreChanges < MaxRecords
    /\ tables' = [tables EXCEPT ![Table] = {r \in @ : r.id # requests[i].id}]
    /\ StartPageFetch(RemoveAt(requests, i))
    /\ UNCHANGED <<walletVars, routeVars, loginVars, records, showModal, editing, pageForm, dialog>>

\* fetchAccounts / fetchCategories after auth.getUser(): without a user
\* setLoading(false) and return; with one the select is sent.
PageFetchUser(i) ==
    /\ PageFree
    /\ i \in DOMAIN requests /\ requests[i].op = "fetch" /\ requests[i].pc = "getUser"
    /\ IF user = NoUser
       THEN pageLoading' = FALSE /\ requests' = RemoveAt(requests, i)
       ELSE /\ requests' = [requests EXCEPT ![i] = [op |-> "fetch", pc |-> "select", uid |-> user]]
            /\ UNCHANGED pageLoading
    /\ UNCHANGED <<walletVars, routeVars, loginVars, tables, records, showModal, editing,
                   pageForm, dialog>>

\* The select answers with the user's rows: setAccounts(data) /
\* setCategories(data); setLoading(false).
PageFetchOk(i) ==
    /\ PageFree
    /\ i \in DOMAIN requests /\ requests[i].op = "fetch" /\ requests[i].pc = "select"
    /\ records' = {r \in tables[Table] : r.user_id = requests[i].uid}
    /\ pageLoading' = FALSE
    /\ requests' = RemoveAt(requests, i)
    /\ UNCHANGED <<walletVars, routeVars, loginVars, tables, showModal, editing, pageForm, dialog>>

\* The select answers with an error: it is logged; setLoading(false).
PageFetchError(i) ==
    /\ PageFree
    /\ i \in DOMAIN requests /\ requests[i].op = "fetch" /\ requests[i].pc = "select"
    /\ pageLoading' = FALSE
    /\ requests' = RemoveAt(requests, i)
    /\ UNCHANGED <<walletVars, routeVars, loginVars, tables, records, showModal, editing,
                   pageForm, dialog>>

(***************************************************************************)
(* A list page from its mount over the stored rows: the first fetch is     *)
(* waiting for auth.getUser().  The run deletes rows of the list: the user *)
(* confirms or cancels, and the store accepts or rejects.                  *)
(***************************************************************************)
InitPage ==
    /\ user \in Users
    /\ WalletIdle
    /\ session \in Users
    /\ path \in ListPaths
    /\ LoginMounted
    /\ tables = StoredTables
    /\ records = {}
    /\ pageLoading = TRUE
    /\ showModal = FALSE
    /\ editing = NoRecord
    /\ pageForm = NewPageForm(path, PageDefaults(path))
    /\ requests = <<[op |-> "fetch", pc |-> "getUser"]>>
    /\ dialog = NoRecord

StoredRecords == UNION {StoredTables[t] : t \in DOMAIN StoredTables}

NextRemove ==
    \/ \E record \in StoredRecords : AskDelete(record)
    \/ CancelDelete
    \/ ConfirmDelete
    \/ \E i \in 1..MaxRequests : DeleteError(i)
    \/ \E i \in 1..MaxRequests : DeleteOk(i)
    \/ \E i \in 1..MaxRequests : PageFetchUser(i)
    \/ \E i \in 1..MaxRequests : PageFetchOk(i)
    \/ \E i \in 1..MaxRequests : PageFetchError(i)
    \/ DismissAlert
    \/ SessionEnds
    \/ openModalForNew
    \/ HideModal

SpecRemove == InitPage /\ [][NextRemove]_vars

(***************************************************************************)
(* A list page from its mount, when the user stays signed in: the run      *)
(* opens the form for a new record and for the rows of the list, closes    *)
(* it, types a name, submits, and the store accepts or rejects.            *)
(***************************************************************************)
NextEdit ==
    \/ openModalForNew
    \/ \E record \in StoredRecords : openModalForEdit(record)
    \/ HideModal
    \/ \E text \in {"Ahorro"} : PageField("name", text)
    \/ PageSubmit
    \/ \E i \in 1..MaxRequests : OnSubmitUser(i)
    \/ \E i \in 1..MaxRequests : WriteOk(i)
    \/ \E i \in 1..MaxRequests, message \in {"permission denied"} : WriteError(i, message)
    \/ \E i \in 1..MaxRequests : PageFetchUser(i)
    \/ \E i \in 1..MaxRequests : PageFetchOk(i)
    \/ DismissAlert

SpecEdit == InitPage /\ [][NextEdit]_vars

(***************************************************************************)
(* The account form at work.  The run starts with the list loaded and the  *)
(* form open after some editing: it was opened for a new account or for    *)
(* an account of the list, and the user has typed a name and an opening    *)
(* balance.  The user goes on typing and submits; the store accepts.       *)
(***************************************************************************)
InitAccounts ==
    /\ user \in Users
    /\ WalletIdle
    /\ session \in Users
    /\ path = "/accounts"
    /\ LoginMounted
    /\ tables = StoredTables
    /\ records = StoredTables["accounts"]
    /\ pageLoading = FALSE
    /\ showModal = TRUE
    /\ editing \in {NoRecord} \cup records
    /\ pageForm \in {NewPageForm(path, [name |-> n, opening_balance |-> b]) :
                        n \in TypedNames, b \in TypedBalances}
    /\ requests = <<>>
    /\ dialog = NoRecord

NextAccounts ==
    \/ \E field \in {"name", "opening_balance"}, text \in TypedNames \cup TypedBalances :
           PageField(field, text)
    \/ PageSubmit
    \/ \E i \in 1..MaxRequests : OnSubmitUser(i)
    \/ \E i \in 1..MaxRequests : WriteOk(i)
    \/ \E i \in 1..MaxRequests : PageFetchUser(i)
    \/ \E i \in 1..MaxRequests : PageFetchOk(i)
    \/ SessionEnds

SpecAccounts == InitAccounts /\ [][NextAccounts]_vars

(***************************************************************************)
(* Properties of the entry form.                                           *)
(***************************************************************************)
\* The form the rendered <form> submits: activeTab === 'transfer' ?
\* transferForm : transactionForm.
CurrentForm == IF activeTab = "transfer" THEN transferForm ELSE transactionForm

StoreRows == Len(transactions) + Len(transfers)

\* Texts of the amount input that are no number, or a number <= 0.
RejectedAmounts == {"", "abc", "-5"}

\* C1: on either form, a submit whose amount text is not numeric or is a
\* number <= 0 puts 'El monto debe ser mayor a cero' on the amount field,
\* starts no submit handler and changes no collection.
C1_BadAmountRejected ==
    [][(Submit /\ CurrentForm.values.amount \in RejectedAmounts)
        => /\ CurrentForm'.errors.amount = MsgAmount
           /\ CurrentForm'.isSubmitted
           /\ submits' = submits
           /\ UNCHANGED storeVars]_vars

\* A non-numeric amount has been submitted and rejected on each kind of form.
C1_Witness ==
    /\ CurrentForm.isSubmitted
    /\ CurrentForm.values.amount = "abc"
    /\ CurrentForm.errors.amount = MsgAmount
    /\ CurrentForm.errors.date = NoError
    /\ submits = <<>>
    /\ StoreRows = 0

\* C2: on the Transfer tab a submit with source = destination leaves an
\* error on to_account_id and starts no handler, whatever the amount and
\* the date.
C2_SameAccountRejected ==
    [][(Submit /\ activeTab = "transfer"
               /\ transferForm.values.from_account_id = transferForm.values.to_account_id)
        => /\ transferForm'.errors.to_account_id # NoError
           /\ submits' = submits]_vars

\* The same account on both sides was rejected together with a bad amount
\* and an empty date.
C2_Witness ==
    /\ activeTab = "transfer"
    /\ transferForm.isSubmitted
    /\ transferForm.values.from_account_id \in AccountIds
    /\ transferForm.values.to_account_id = transferForm.values.from_account_id
    /\ transferForm.errors.to_account_id = MsgSame
    /\ transferForm.errors.amount = MsgAmount
    /\ transferForm.errors.date = MsgDate

\* C3: no row of transfers, and no insert on its way to transfers, has
\* from_account_id = to_account_id.
C3_NoSelfTransfer ==
    /\ \A k \in DOMAIN transfers :
           transfers[k].from_account_id # transfers[k].to_account_id
    /\ \A i \in DOMAIN submits :
           (submits[i].pc = "insert" /\ submits[i].request.table = "transfers")
               => submits[i].request.row.from_account_id # submits[i].request.row.to_account_id

\* {amount 50, from A, to A, date set} was submitted on the Transfer tab and
\* nothing was inserted.
C3_Witness ==
    /\ activeTab = "transfer"
    /\ transferForm.isSubmitted
    /\ transferForm.values.amount = "50"
    /\ transferForm.values.from_account_id = "acc-1"
    /\ transferForm.values.to_account_id = "acc-1"
    /\ transferForm.values.date = Today
    /\ transferForm.errors.to_account_id = MsgSame
    /\ submits = <<>>
    /\ StoreRows = 0

\* A submit of the current form whose values pass its schema.
ValidTransactionValues(v) ==
    /\ v.amount = "50"
    /\ v.account_id \in AccountIds
    /\ v.category_id \in CategoryIds
    /\ v.date = Today

ValidTransferValues(v) ==
    /\ v.amount = "50"
    /\ v.from_account_id \in AccountIds
    /\ v.to_account_id \in AccountIds \ {v.from_account_id}
    /\ v.date = Today

\* C4: a valid submit on the Expense or Income tab starts one handler that
\* holds the form's values and the tab; with a user the handler sends one
\* insert to transactions with account, category, amount, date, note, owner
\* and the kind of that tab ('in' for Income, 'out' for Expense); when the
\* store accepts it, exactly that row is added to transactions and none to
\* transfers, the success callback starts a dashboard fetch and the form
\* closes.
C4_TransactionInserted ==
    [][/\ (Submit /\ activeTab # "transfer" /\ ValidTransactionValues(transactionForm.values))
            => /\ Len(submits') = Len(submits) + 1
               /\ LET t == submits'[Len(submits')]
                      v == transactionForm.values
                  IN  /\ t.pc = "getUser" /\ t.tab = activeTab
                      /\ t.data = [amount |-> 50, account_id |-> v.account_id,
                                   category_id |-> v.category_id, date |-> v.date,
                                   note |-> v.note]
       /\ \A i \in 1..MaxSubmits :
            (SubmitGetUser(i) /\ user # NoUser /\ submits[i].tab # "transfer")
            => LET t == submits[i]
               IN  /\ submits'[i].pc = "insert"
                   /\ submits'[i].request.table = "transactions"
                   /\ submits'[i].request.row =
                        [account_id |-> t.data.account_id, category_id |-> t.data.category_id,
                         amount |-> t.data.amount, date |-> t.data.date, note |-> t.data.note,
                         user_id |-> user,
                         kind |-> IF t.tab = "income" THEN "in" ELSE "out"]
       /\ \A i \in 1..MaxSubmits :
            (SubmitInsertOk(i) /\ submits[i].request.table = "transactions")
            => /\ transactions' = Append(transactions, submits[i].request.row)
               /\ transfers' = transfers
               /\ loading' /\ Len(fetches') = Len(fetches) + 1
               /\ ~isModalOpen']_vars

\* An income entered with a note was inserted with kind 'in' although the
\* tab was changed while the insert was in flight; the form is closed and
\* the dashboard is fetching.
C4_Witness ==
    /\ Len(transactions) = 1 /\ transfers = <<>>
    /\ transactions[1].kind = "in"
    /\ transactions[1].category_id = "cat-in"
    /\ transactions[1].amount = 50
    /\ transactions[1].note = "memo"
    /\ activeTab = "expense"
    /\ ~isModalOpen
    /\ loading /\ Len(fetches) = 1

\* C5: a valid submit on the Transfer tab starts one handler that holds the
\* transfer form's values; with a user the handler sends one insert to
\* transfers whose row has exactly the fields from_account_id,
\* to_account_id, amount, date, note and user_id; when the store accepts it
\* that row is added to transfers and transactions is unchanged.
C5_TransferInserted ==
    [][/\ (Submit /\ activeTab = "transfer" /\ ValidTransferValues(transferForm.values))
            => /\ Len(submits') = Len(submits) + 1
               /\ LET t == submits'[Len(submits')]
                      v == transferForm.values
                  IN  /\ t.pc = "getUser" /\ t.tab = "transfer"
                      /\ t.data = [amount |-> 50, from_account_id |-> v.from_account_id,
                                   to_account_id |-> v.to_account_id, date |-> v.date,
                                   note |-> v.note]
       /\ \A i \in 1..MaxSubmits :
            (SubmitGetUser(i) /\ user # NoUser /\ submits[i].tab = "transfer")
            => LET t == submits[i]
               IN  /\ submits'[i].pc = "insert"
                   /\ submits'[i].request.table = "transfers"
                   /\ DOMAIN submits'[i].request.row =
                        {"from_account_id", "to_account_id", "amount", "date", "note", "user_id"}
                   /\ submits'[i].request.row =
                        [from_account_id |-> t.data.from_account_id,
                         to_account_id |-> t.data.to_account_id,
                         amount |-> t.data.amount, date |-> t.data.date, note |-> t.data.note,
                         user_id |-> user]
       /\ \A i \in 1..MaxSubmits :
            (SubmitInsertOk(i) /\ submits[i].request.table = "transfers")
            => /\ transfers' = Append(transfers, submits[i].request.row)
               /\ transactions' = transactions]_vars

\* A transfer with a note was inserted and transactions is empty.
C5_Witness ==
    /\ Len(transfers) = 1 /\ transactions = <<>>
    /\ transfers[1].from_account_id = "acc-2"
    /\ transfers[1].to_account_id = "acc-1"
    /\ transfers[1].amount = 50
    /\ transfers[1].note = "memo"
    /\ transfers[1].user_id \in Users

\* C6: a step that changes activeTab leaves both forms with the default
\* values (date of the day, empty note, empty selections, empty amount) and
\* without errors.
C6_TabChangeResets ==
    [][activeTab' # activeTab
        => /\ transactionForm'.values =
                [amount |-> "", account_id |-> "", category_id |-> "", date |-> Today,
                 note |-> ""]
           /\ transferForm'.values =
                [amount |-> "", from_account_id |-> "", to_account_id |-> "", date |-> Today,
                 note |-> ""]
           /\ \A f \in DOMAIN transactionForm'.errors : transactionForm'.errors[f] = NoError
           /\ \A f \in DOMAIN transferForm'.errors : transferForm'.errors[f] = NoError]_vars

\* The tab was changed away from a form that had been filled, submitted and
\* is still being saved: both forms are back at their defaults.
C6_Witness ==
    /\ \E i \in DOMAIN submits : submits[i].tab = "expense" /\ submits[i].data.note = "memo"
    /\ activeTab = "transfer"
    /\ transactionForm = NewTransactionForm
    /\ transferForm = NewTransferForm

\* C7: while the form shows the Income or the Expense tab, the categories
\* its select offers are exactly the loaded categories of type income,
\* respectively expense; and a category the user chooses is a loaded one of
\* the type of the tab.
C7_OfferedCategories ==
    /\ [](isModalOpen
            => /\ activeTab = "income"
                    => Options("category_id") \ {""}
                         = {c \in categories : CategoryType[c] = "income"}
               /\ activeTab = "expense"
                    => Options("category_id") \ {""}
                         = {c \in categories : CategoryType[c] = "expense"})
    /\ [][LET chosen == transactionForm'.values.category_id
          IN  (chosen # transactionForm.values.category_id /\ chosen # "")
                => /\ chosen \in categories
                   /\ CategoryType[chosen] = activeTab]_vars

\* Both kinds of category are loaded and, on the Income tab, the income
\* category has been chosen.
C7_Witness ==
    /\ isModalOpen
    /\ activeTab = "income"
    /\ categories = CategoryIds
    /\ Options("category_id") = {"", "cat-in"}
    /\ transactionForm.values.category_id = "cat-in"

\* The figures the dashboard would show for a window of the store.
KpiOfPeriod(period) == KpiOf(get_performance_summary(period))

\* C8: once no fetch is in flight the displayed KPI values are those of the
\* window of the most recently issued request, which is the window on
\* screen: after a change from 30 to 7 days they are the 7-day figures,
\* whatever the order in which the two responses arrived.
C8_FinalKpisOfLatestRequest ==
    fetches = <<>> => kpiData = KpiOfPeriod(activePeriod)

\* The 7-day window is on screen, nothing is in flight, and the two windows
\* have different figures.
C8_Witness ==
    /\ fetches = <<>>
    /\ activePeriod = "7"
    /\ KpiOfPeriod("7") # KpiOfPeriod("30")
    /\ kpiData \in {KpiOfPeriod("7"), KpiOfPeriod("30")}

\* C9: when a submit handler finds no user it ends: no insert is sent and no
\* collection changes, no dashboard fetch starts, no alert is shown, and
\* isModalOpen and both forms are as they were.
C9_NoUserAbortsSilently ==
    [][\A i \in 1..MaxSubmits :
        (SubmitGetUser(i) /\ user = NoUser)
        => /\ submits' = RemoveAt(submits, i)
           /\ UNCHANGED storeVars
           /\ UNCHANGED <<loading, fetches>>
           /\ alertMsg' = NoAlert
           /\ UNCHANGED <<isModalOpen, activeTab, transactionForm, transferForm>>]_vars

\* A valid submit met no user: nothing is in flight or stored, and the form
\* is open with the values that were submitted.
C9_Witness ==
    /\ user = NoUser
    /\ isModalOpen
    /\ activeTab = "income"
    /\ transactionForm.isSubmitted
    /\ ValidTransactionValues(transactionForm.values)
    /\ transactionForm.errors = NoTransactionErrors
    /\ submits = <<>>
    /\ StoreRows = 0
    /\ alertMsg = NoAlert
    /\ fetches = <<>> /\ ~loading

\* C10: when the store rejects an insert the alert shows the store's
\* message, isModalOpen and both forms are as they were, no dashboard fetch
\* starts and no collection changes; and while the alert is on screen
\* nothing but its dismissal happens.
C10_StoreErrorAlerts ==
    [][/\ \A i \in 1..MaxSubmits, m \in StoreErrors :
            SubmitInsertError(i, m)
            => /\ alertMsg' = "Error: " \o m
               /\ UNCHANGED <<isModalOpen, activeTab, transactionForm, transferForm>>
               /\ UNCHANGED <<loading, fetches>>
               /\ UNCHANGED storeVars
       /\ alertMsg # NoAlert
            => /\ alertMsg' = NoAlert
               /\ UNCHANGED <<user, storeVars, isModalOpen, formVars, listVars, submits, loads,
                              dashVars, loading, fetches>>]_vars

\* The store's message is on screen above the open form, which still holds
\* the submitted values; nothing was stored and the dashboard is at rest.
C10_Witness ==
    /\ alertMsg = "Error: violates foreign key"
    /\ isModalOpen
    /\ activeTab = "transfer"
    /\ ValidTransferValues(transferForm.values)
    /\ StoreRows = 0
    /\ fetches = <<>> /\ ~loading

\* The default values of a form's fields, and no error on any of them.
FormAtDefaults(form, defaults) ==
    /\ form.values = defaults
    /\ \A f \in DOMAIN form.errors : form.errors[f] = NoError

\* C11: a save that the store accepts starts the dashboard's fetch and
\* closes the form; and when the form is opened after an entry was saved,
\* the fields of both forms hold the defaults (date of the day, empty note,
\* empty selections, empty amount) and no errors.
C11_ReopenedFormIsFresh ==
    [][/\ (\E i \in DOMAIN submits : SubmitInsertOk(i))
            => /\ Len(fetches') = Len(fetches) + 1
               /\ ~isModalOpen'
       /\ (~isModalOpen /\ isModalOpen' /\ StoreRows > 0)
            => /\ FormAtDefaults(transactionForm',
                                 [amount |-> "", account_id |-> "", category_id |-> "",
                                  date |-> Today, note |-> ""])
               /\ FormAtDefaults(transferForm',
                                 [amount |-> "", from_account_id |-> "", to_account_id |-> "",
                                  date |-> Today, note |-> ""])]_vars

\* The form is open again after an expense with a note was saved, and it
\* shows the saved entry's amount, account, category and note.
C11_Witness ==
    /\ isModalOpen
    /\ Len(transactions) = 1
    /\ submits = <<>>
    /\ activeTab = "expense"
    /\ transactionForm.values.amount = "50"
    /\ transactionForm.values.note = "memo"
    /\ transactionForm.values.account_id = transactions[1].account_id
    /\ transactionForm.values.category_id = transactions[1].category_id

\* C12: when the loader started by the opening of the form finds no user,
\* it ends there: no accounts or categories query is sent (no loader is at
\* a query afterwards that was not before), the loaded lists stay as they
\* were and nothing is shown.
C12_LoaderNoOpWithoutUser ==
    [][\A i \in 1..MaxLoads :
          (LoadGetUser(i) /\ user = NoUser)
            => /\ loads' = RemoveAt(loads, i)
               /\ accounts' = accounts
               /\ categories' = categories
               /\ alertMsg' = NoAlert]_vars

\* The form is open without a user, its loader has ended, and the lists
\* loaded at an earlier opening are still there.
C12_Witness ==
    /\ isModalOpen
    /\ user = NoUser
    /\ loads = <<>>
    /\ accounts = AccountIds
    /\ categories = CategoryIds

\* C13: a loader's query that brings no data makes its list the empty list
\* and one that brings rows makes it those rows; no alert is shown; the
\* lists change only in the step in which the loader's second query, the
\* one on categories, has answered, and until then they stay as they were.
C13_FailedLoadEmptiesLists ==
    [][/\ \A i \in 1..MaxLoads, d \in QueryResults(CategoryIds) :
            LoadCategories(i, d)
              => /\ accounts' = IF loads[i].accountsData.isNull THEN {}
                                ELSE loads[i].accountsData.data
                 /\ categories' = IF d.isNull THEN {} ELSE d.data
                 /\ alertMsg' = NoAlert
       /\ (accounts' # accounts \/ categories' # categories)
            => \E i \in DOMAIN loads :
                  /\ loads[i].pc = "categories"
                  /\ loads' = RemoveAt(loads, i)
                  /\ user' = user]_vars

\* A load whose accounts query brought no data and whose categories query
\* brought the rows has ended: accounts is empty, categories is loaded, and
\* nothing is shown.
C13_Witness ==
    /\ isModalOpen
    /\ loads = <<>>
    /\ accounts = {}
    /\ categories = CategoryIds
    /\ alertMsg = NoAlert

\* The places in a summary of the rows of a kind, and the sum of a field
\* over places of a sequence of records.
RowsOfKind(summaryData, kind) == {n \in DOMAIN summaryData : summaryData[n].kind = kind}

RECURSIVE SumAt(_, _, _)
SumAt(rows, field, S) ==
    IF S = {} THEN 0
    ELSE LET n == CHOOSE x \in S : TRUE
         IN  rows[n][field] + SumAt(rows, field, S \ {n})

\* C14: the step in which a summary answers leaves as income the sum of
\* total_amount over the summary's rows of kind 'in', as expense the sum
\* over its rows of kind 'out', and as balance their difference; and in
\* every state the displayed balance is the displayed income minus the
\* displayed expense.
C14_KpiFromSummary ==
    /\ [](kpiData.balance = kpiData.ingresos - kpiData.gastos)
    /\ [][\A i \in 1..MaxFetches :
            FetchSummaryOk(i)
              => LET summaryData == get_performance_summary(fetches[i].period)
                 IN  /\ kpiData'.ingresos
                          = SumAt(summaryData, "total_amount", RowsOfKind(summaryData, "in"))
                     /\ kpiData'.gastos
                          = SumAt(summaryData, "total_amount", RowsOfKind(summaryData, "out"))
                     /\ kpiData'.balance = kpiData'.ingresos - kpiData'.gastos]_vars

\* The figures of a 30-day summary with one income row and two expense rows
\* are displayed.
C14_Witness ==
    /\ Len(get_performance_summary("30")) = 3
    /\ kpiData = [ingresos |-> 100, gastos |-> 200, balance |-> -100]

\* C15: the step in which a summary answers leaves as breakdown one entry
\* {name: category_name, value: total_amount} for each of the summary's
\* rows of kind 'out', in the order of the rows, and nothing else; and in
\* every state the values of the breakdown add up to the displayed expense.
C15_BreakdownFromSummary ==
    /\ [](SumAt(pieChartData, "value", DOMAIN pieChartData) = kpiData.gastos)
    /\ [][\A i \in 1..MaxFetches :
            FetchSummaryOk(i)
              => LET summaryData == get_performance_summary(fetches[i].period)
                     out == RowsOfKind(summaryData, "out")
                     place(n) == Cardinality({m \in out : m <= n})
                 IN  /\ Len(pieChartData') = Cardinality(out)
                     /\ \A n \in out :
                          pieChartData'[place(n)]
                            = [name |-> summaryData[n].category_name,
                               value |-> summaryData[n].total_amount]]_vars

\* The breakdown of a summary that has an income row as well: the two
\* expense categories and no entry for the income.
C15_Witness ==
    /\ kpiData.ingresos = 100
    /\ pieChartData = <<[name |-> "Transporte", value |-> 100],
                        [name |-> "Comida", value |-> 100]>>

\* C16: a step starts a fetchDashboardData exactly when it changes the
\* window, changes the category filter or is the saving of an entry (the
\* success signal of the form), and the fetch it starts is for the window
\* and the category filter on screen after the step.
C16_RecomputationTriggers ==
    [][LET started == Len(fetches') = Len(fetches) + 1
       IN  /\ started <=> \/ activePeriod' # activePeriod
                          \/ activeCategory' # activeCategory
                          \/ StoreRows' > StoreRows
           /\ started => /\ fetches'[Len(fetches')].pc = "getUser"
                         /\ fetches'[Len(fetches')].period = activePeriod'
                         /\ fetches'[Len(fetches')].category = activeCategory']_vars

\* An entry was saved after the window had been changed to 7 days, and the
\* fetch its success signal started is in flight.
C16_Witness ==
    /\ StoreRows = 1
    /\ activePeriod = "7"
    /\ Len(fetches) = 2
    /\ fetches[1].period = "7"
    /\ fetches[2].pc = "getUser"

\* C17: the list a fetch writes when its recent query answers has at most
\* five rows, each dated within the window of that fetch and, when the
\* fetch has a category filter, of that category, from the newest date to
\* the oldest.
C17_RecentList ==
    [][\A i \in 1..MaxFetches :
          FetchRecentOk(i)
            => LET list == recentTransactions'
                   fetch == fetches[i]
               IN  /\ Len(list) <= 5
                   /\ \A a \in DOMAIN list :
                        /\ DaysAgo[list[a].date] <= ParseInt[fetch.period]
                        /\ fetch.category # "all"
                             => transactions[list[a].id].category_id = fetch.category
                   /\ \A a, b \in DOMAIN list :
                        a < b => DaysAgo[list[a].date] <= DaysAgo[list[b].date]]_vars

\* Of six rows within 30 days the list shows five, from the day of the run
\* back to twelve days before; the row of seventeen days before is left
\* out.
C17_Witness ==
    /\ Len(transactions) = 6
    /\ Len(recentTransactions) = 5
    /\ recentTransactions[1].date = Today
    /\ recentTransactions[3].date = LastWeek
    /\ recentTransactions[5].date = Earlier

\* The handlers of a sequence that wait for the answer to a request.
Waiting(tasks, pcs) == Cardinality({i \in DOMAIN tasks : tasks[i].pc \in pcs})

\* A step that sends a request to the store: the dashboard's select on
\* categories, a fetch's rpc or recent query, a loader's select on accounts
\* or on categories, a submit's insert.
RequestSent ==
    \/ categoriesFetch' /\ ~categoriesFetch
    \/ \E pc \in {"rpc", "recent"} : Waiting(fetches', {pc}) > Waiting(fetches, {pc})
    \/ \E pc \in {"accounts", "categories"} : Waiting(loads', {pc}) > Waiting(loads, {pc})
    \/ Waiting(submits', {"insert"}) > Waiting(submits, {"insert"})

\* C18: no step sends a request to the store while there is no user.
C18_NoRequestWithoutUser ==
    [][RequestSent => user # NoUser]_vars

\* Without a user the dashboard's fetch has ended at its check, and the
\* select on categories is in flight.
C18_Witness ==
    /\ user = NoUser
    /\ categoriesFetch
    /\ fetches = <<>>
    /\ ~loading

\* The selections of the form on screen are identifiers of the loaded lists.
SelectionsLoaded ==
    IF activeTab = "transfer"
    THEN /\ transferForm.values.from_account_id \in accounts
         /\ transferForm.values.to_account_id \in accounts
    ELSE /\ transactionForm.values.account_id \in accounts
         /\ transactionForm.values.category_id \in categories

\* C19: a submit starts a handler, and so an insert, only if the account
\* and category (or the two accounts) selected in the form are in the lists
\* loaded at that moment.
C19_SelectionsFromLoadedLists ==
    [][(Submit /\ Len(submits') > Len(submits)) => SelectionsLoaded]_vars

\* The form is open with an account chosen from lists that a later load has
\* emptied, ready to be submitted.
C19_Witness ==
    /\ isModalOpen
    /\ loads = <<>> /\ submits = <<>>
    /\ accounts = {} /\ categories = {}
    /\ activeTab = "expense"
    /\ transactionForm.values.amount = "50"
    /\ transactionForm.values.account_id = "acc-1"
    /\ transactionForm.values.category_id = "cat-out"
    /\ ~transactionForm.isSubmitted

\* The type of category that goes with a kind of row.
TypeOfKind == [k \in {"in", "out"} |-> IF k = "in" THEN "income" ELSE "expense"]

\* C20: every row of transactions, and every row on its way to it, has a
\* category of the type of its kind: an income category with kind 'in', an
\* expense category with kind 'out'.
C20_CategoryMatchesKind ==
    /\ \A k \in DOMAIN transactions :
          CategoryType[transactions[k].category_id] = TypeOfKind[transactions[k].kind]
    /\ \A i \in DOMAIN submits :
          (submits[i].pc = "insert" /\ submits[i].request.table = "transactions")
            => CategoryType[submits[i].request.row.category_id]
                 = TypeOfKind[submits[i].request.row.kind]

\* An expense was saved, and the form, changed to the Income tab after the
\* submit, holds an income category chosen there.
C20_Witness ==
    /\ Len(transactions) = 1
    /\ transactions[1].kind = "out"
    /\ transactions[1].category_id = "cat-out"
    /\ activeTab = "income"
    /\ transactionForm.values.category_id = "cat-in"

(***************************************************************************)
(* Properties of the router and of the login page.                         *)
(***************************************************************************)
\* The handleAuth calls that can still set the state of the login page.
LiveAuths == {i \in DOMAIN auths : auths[i].live}

\* C21: a protected page is rendered only with a session, and a protected
\* location without one renders the redirect to '/'; the login page is
\* rendered only at '/' without a session, and '/' with one renders the
\* redirect to '/dashboard'; the location a redirect leads to renders a
\* page, so no redirect follows a redirect.
C21_RoutesGuarded ==
    /\ [](/\ (Rendered.kind = "page" /\ Rendered # Page("LoginPage")) => session # NoUser
          /\ (path \in ProtectedPaths /\ session = NoUser) => Rendered = Navigate("/")
          /\ Rendered = Page("LoginPage") => (path = "/" /\ session = NoUser)
          /\ (path = "/" /\ session # NoUser) => Rendered = Navigate("/dashboard"))
    /\ [][Redirect => Rendered'.kind = "page"]_vars

\* The categories page is rendered for a user who signed up on the login
\* page.
C21_Witness ==
    /\ Rendered = Page("CategoriesPage")
    /\ session \in Users
    /\ ~isLogin

FetchFails(i) ==
    \/ FetchGetUser(i) /\ user = NoUser
    \/ FetchSummaryError(i)
    \/ FetchRecentError(i)

\* What the dashboard shows of the store: figures, breakdown, recent list.
Shown == <<kpiData, pieChartData, recentTransactions>>

NothingShown == Shown = <<[ingresos |-> 0, gastos |-> 0, balance |-> 0], <<>>, <<>>>>

\* C22 as stated: after a failed summary the dashboard is loading or shows
\* nothing, never the figures of an earlier fetch.
C22_FailedFetchShowsNothing ==
    [][\A i \in 1..MaxFetches : FetchSummaryError(i) => (loading' \/ NothingShown')]_vars

\* C22: a failed fetch raises no alert and starts no other fetch; it ends
\* loading and leaves on screen what was there before it failed, which
\* after an earlier successful fetch is that fetch's figures.
C22_FailedFetchKeepsFigures ==
    [][\A i \in 1..MaxFetches :
          FetchFails(i)
            => /\ alertMsg' = NoAlert
               /\ Len(fetches') = Len(fetches) - 1
               /\ \A j \in DOMAIN fetches' : fetches'[j].pc # "getUser"
                                               \/ fetches'[j] \in {fetches[k] : k \in DOMAIN fetches}
               /\ ~loading'
               /\ Shown' = Shown]_vars

\* The 7-day window is on screen with nothing in flight, and the figures
\* and the list are those of the 30-day window.
C22_Witness ==
    /\ fetches = <<>> /\ ~loading
    /\ activePeriod = "7"
    /\ KpiOfPeriod("7") # KpiOfPeriod("30")
    /\ kpiData = KpiOfPeriod("30")
    /\ Len(recentTransactions) = 3

\* C26 as stated: loading is true whenever a fetch is in flight.
C26_LoadingWhileInFlight == fetches # <<>> => loading

\* A fetch is in flight behind a dashboard that shows figures as final.
C26_Witness ==
    /\ fetches # <<>>
    /\ ~loading
    /\ kpiData.gastos > 0

\* C27: the step in which the summary answers writes the figures and the
\* breakdown and leaves the recent list; a recent query that fails after
\* it leaves all three, so the new figures stand beside the previous list;
\* a summary that fails, or a fetch that finds no user, leaves all three.
C27_PartialUpdate ==
    [][\A i \in 1..MaxFetches :
          /\ FetchSummaryOk(i)
               => /\ kpiData' = KpiOfPeriod(fetches[i].period)
                  /\ pieChartData' = ExpenseData(get_performance_summary(fetches[i].period))
                  /\ recentTransactions' = recentTransactions
                  /\ fetches'[i].pc = "recent"
          /\ FetchFails(i) => Shown' = Shown]_vars

\* The first fetch of a store with rows in the window has failed at the
\* recent query: the figures are there and the list is empty.
C27_Witness ==
    /\ fetches = <<>> /\ ~loading
    /\ activePeriod = "30" /\ activeCategory = "all"
    /\ kpiData.gastos > 0
    /\ pieChartData # <<>>
    /\ recentTransactions = <<>>

\* C28: a change of the category filter leaves the window, the figures and
\* the breakdown; the summary of a fetch is that of its window whatever its
\* category; and with every request answered the figures and the breakdown
\* at rest are those of one of the windows over the whole store.
C28_CategoryOnlyFiltersRecent ==
    /\ [][\A c \in DrawnCategories :
             ChangeCategory(c)
                 => /\ activePeriod' = activePeriod
                    /\ kpiData' = kpiData /\ pieChartData' = pieChartData]_vars
    /\ [][\A i \in 1..MaxFetches :
             FetchSummaryOk(i)
                 => /\ kpiData' = KpiOfPeriod(fetches[i].period)
                    /\ pieChartData' = ExpenseData(get_performance_summary(fetches[i].period))]_vars
    /\ []((fetches = <<>> /\ ~loading)
             => \E p \in DrawnPeriods :
                    /\ kpiData = KpiOfPeriod(p)
                    /\ pieChartData = ExpenseData(get_performance_summary(p)))

\* One expense category is chosen: the list holds its rows only, and the
\* figures count the other expense category and the income as well.
C28_Witness ==
    /\ fetches = <<>> /\ ~loading
    /\ activeCategory = "cat-out" /\ activePeriod = "30"
    /\ Len(recentTransactions) = 2
    /\ kpiData = [ingresos |-> 100, gastos |-> 200, balance |-> -100]
    /\ Len(pieChartData) = 2

(***************************************************************************)
(* Properties of the pages of accounts and categories.                     *)
(***************************************************************************)
\* Texts of the opening balance input that are empty, no number, or a
\* negative number.
RejectedBalances == {"", "abc", "-5"}

ValidAccount(row) == row.opening_balance >= 0 /\ Len(row.name) >= 2

\* The requests of one operation among the page handlers in flight.
RequestsOf(s, op) == {i \in DOMAIN s : s[i].op = op}

\* C23: every account row the form has sent to the store, and every row an
\* insert or update of the form has left there, has an opening balance >= 0
\* and a name of at least two characters; a submit with an empty, a
\* non-numeric or a negative opening balance leaves an error on that field
\* and starts no handler.
C23_AccountsValid ==
    /\ [](\A r \in tables["accounts"] \ StoredTables["accounts"] : ValidAccount(r))
    /\ [](\A i \in RequestsOf(requests, "submit") :
             requests[i].pc # "getUser" => ValidAccount(requests[i].row))
    /\ [][(PageSubmit /\ pageForm.values.opening_balance \in RejectedBalances)
             => /\ pageForm'.errors.opening_balance # NoError
                /\ pageForm'.isSubmitted
                /\ UNCHANGED <<requests, tables>>]_vars

\* The first account has been updated to the name typed and the balance 0.
C23_Witness ==
    /\ [id |-> 1, name |-> "Ahorro", opening_balance |-> 0, user_id |-> "u1"] \in tables["accounts"]
    /\ Cardinality(tables["accounts"]) = 2
    /\ ~showModal

\* C24: a delete request starts only in the step in which the user confirms,
\* for the row the confirm was about, and a cancel starts nothing; when the
\* store rejects the delete the alert is raised, the list and the
\* collection stay and no fetch starts; when it accepts, the row is gone
\* and the list is fetched again.
C24_DeleteAfterConfirm ==
    /\ [][Cardinality(RequestsOf(requests', "delete")) > Cardinality(RequestsOf(requests, "delete"))
             => /\ dialog # NoRecord /\ dialog' = NoRecord
                /\ requests' = Append(requests,
                                      [op |-> "delete", pc |-> "delete", id |-> dialog.id])]_vars
    /\ [][CancelDelete => UNCHANGED <<requests, tables, records>>]_vars
    /\ [][\A i \in 1..MaxRequests :
             DeleteError(i)
                 => /\ alertMsg' \in {MsgDeleteAccount, MsgDeleteCategory}
                    /\ UNCHANGED <<records, tables, pageLoading>>
                    /\ requests' = RemoveAt(requests, i)]_vars
    /\ [][\A i \in 1..MaxRequests :
             DeleteOk(i)
                 => /\ alertMsg' = NoAlert
                    /\ \A r \in tables'[Table] : r.id # requests[i].id
                    /\ pageLoading'
                    /\ requests' = Append(RemoveAt(requests, i),
                                          [op |-> "fetch", pc |-> "getUser"])]_vars

\* The first row has been deleted and the list fetched again.
C24_Witness ==
    /\ requests = <<>> /\ ~pageLoading
    /\ records = tables[Table]
    /\ {r.id : r \in records} = {2}

\* C25: the form opens only through openModalForNew, which leaves no record
\* being edited, or openModalForEdit, which leaves the record of the row;
\* the record being edited changes in no other step.  A submit hands that
\* record to its handler, which sends an update of that record's id if
\* there is one and an insert otherwise.  An accepted update changes the
\* row of that id only and an accepted insert changes no row that was
\* there; both close the form and fetch the list again.  A rejected one
\* leaves the form as it is.
C25_UpdateOnlyWhatIsEdited ==
    /\ [][(~showModal /\ showModal')
             => \/ openModalForNew /\ editing' = NoRecord
                \/ \E record \in records : openModalForEdit(record) /\ editing' = record]_vars
    /\ [][editing' # editing => (~showModal /\ showModal')]_vars
    /\ [][(PageSubmit /\ requests' # requests)
             => requests'[Len(requests')].editing = editing]_vars
    /\ [][\A i \in 1..MaxRequests :
             (OnSubmitUser(i) /\ user # NoUser)
                 => /\ requests'[i].pc = (IF requests[i].editing # NoRecord
                                          THEN "update" ELSE "insert")
                    /\ requests'[i].id = requests[i].editing.id]_vars
    /\ [][\A i \in 1..MaxRequests :
             WriteOk(i)
                 => /\ \A r \in tables[Table] :
                          (requests[i].pc = "insert" \/ r.id # requests[i].id)
                              => r \in tables'[Table]
                    /\ requests[i].pc = "update"
                          => {r.id : r \in tables'[Table]} = {r.id : r \in tables[Table]}
                    /\ ~showModal'
                    /\ pageLoading'
                    /\ requests'[Len(requests')] = [op |-> "fetch", pc |-> "getUser"]]_vars
    /\ [][\A i \in 1..MaxRequests, message \in StoreErrors :
             WriteError(i, message)
                 => UNCHANGED <<showModal, tables, records, pageLoading>>]_vars

\* A record has been added with the name typed, the stored rows are as they
\* were, and the list has been fetched again.
C25_Witness ==
    /\ requests = <<>> /\ ~pageLoading /\ ~showModal
    /\ records = tables[Table]
    /\ StoredTables[Table] \subseteq tables[Table]
    /\ \E r \in records : r.id = 3 /\ r.name = "Ahorro"
====
